---------------------------- MODULE Spec2Model ----------------------------
(***************************************************************************)
(* A model of crates/rvello/src/lib.rs: the display-list decoder, the      *)
(* scene builder driven by RendererHandle::apply, the surface/offscreen    *)
(* bookkeeping of RendererHandle::resize and the frame driver              *)
(* RendererHandle::render.                                                 *)
(*                                                                         *)
(* Numbers.  TLC integers are 32-bit signed, so                            *)
(*   - a u32 is the pair <<hi, lo>> of its 16-bit halves;                  *)
(*   - an f32 is [cls, neg, m, e]: cls \in {"nan","inf","fin"}, and a      *)
(*     finite value is (-1)^neg * m * 2^e with m odd (or m = 0, e = 0),    *)
(*     m < 2^24 and -149 <= e.  Arithmetic is exact followed by IEEE       *)
(*     round-to-nearest-even to that format.                               *)
(***************************************************************************)
EXTENDS Integers, Sequences, FiniteSets, TLC

VARIABLES
    config,              \* self.config: [width, height, format]
    surface,             \* what the wgpu surface was last configured with
    scene,               \* self.scene: the sequence of draw commands
    base_color,          \* self.base_color: <<r, g, b, a>> of f32
    offscreen,           \* self.offscreen: None or [view, width, height]
    present_bind_group,  \* self.present_bind_group: None or [view]
    present_pipeline,    \* self.present_pipeline: None or [format]
    call                 \* the last public call: its name, arguments, result and effects

vars == <<config, surface, scene, base_color, offscreen, present_bind_group,
          present_pipeline, call>>

None == [some |-> FALSE]

Some(v) == [some |-> TRUE, val |-> v]

IsSome(o) == o.some

\* ------------------------------------------------------------------ u32

U32(n) == <<n \div 65536, n % 65536>>

U32Zero == <<0, 0>>

U32One == <<0, 1>>

U32MAX == <<65535, 65535>>

U32Lt(a, b) == a[1] < b[1] \/ (a[1] = b[1] /\ a[2] < b[2])

\* the canvas size taken as it is, without max(1)
U32Max1_keeping_zero(a) == a

\* u32::max(1)
U32Max1(a) == IF a = U32Zero THEN U32One ELSE a

\* The value as a TLC integer; used only below 2^31.
U32ToNat(a) == a[1] * 65536 + a[2]

\* ------------------------------------------------------------------ f32

RECURSIVE Pow2(_)
Pow2(k) == IF k <= 0 THEN 1 ELSE 2 * Pow2(k - 1)

RECURSIVE BitLen(_)
BitLen(n) == IF n <= 0 THEN 0 ELSE 1 + BitLen(n \div 2)

NaN == [cls |-> "nan", neg |-> FALSE, m |-> 0, e |-> 0]

Inf(neg) == [cls |-> "inf", neg |-> neg, m |-> 0, e |-> 0]

Zero(neg) == [cls |-> "fin", neg |-> neg, m |-> 0, e |-> 0]

\* m * 2^e with the trailing zero bits of m moved into the exponent.
RECURSIVE Norm(_, _, _)
Norm(neg, m, e) ==
    IF m = 0 THEN Zero(neg)
    ELSE IF m % 256 = 0 THEN Norm(neg, m \div 256, e + 8)
    ELSE IF m % 2 = 0 THEN Norm(neg, m \div 2, e + 1)
    ELSE [cls |-> "fin", neg |-> neg, m |-> m, e |-> e]

\* The position of the leading bit of a finite non-zero value.
Top(x) == BitLen(x.m) + x.e

Max(a, b) == IF a >= b THEN a ELSE b

Min(a, b) == IF a <= b THEN a ELSE b

Abs(a) == IF a < 0 THEN -a ELSE a

\* Rounding, last step: the rounded mantissa q at exponent t.
RoundDone(neg, q, t) ==
    IF q = 0 THEN Zero(neg)
    ELSE IF BitLen(q) + t > 128 THEN Inf(neg)
    ELSE Norm(neg, q, t)

\* Rounding of q + r / 2h to the nearest integer, ties to even.
RoundTies(neg, q, r, h, t) ==
    RoundDone(neg, IF r > h \/ (r = h /\ q % 2 = 1) THEN q + 1 ELSE q, t)

\* Rounding of the normalised n to the last place t, k = t - n.e places up.
RoundShift(neg, n, t, k) ==
    IF k <= 0 THEN (IF Top(n) > 128 THEN Inf(neg) ELSE n)
    ELSE IF k > 30 THEN Zero(neg)
    ELSE RoundTies(neg, n.m \div Pow2(k), n.m % Pow2(k), Pow2(k - 1), t)

RoundAt(neg, n, t) == RoundShift(neg, n, t, t - n.e)

\* The exact value (-1)^neg * m * 2^e rounded to f32, ties to even:
\* 24 significant bits, least exponent -149, overflow to infinity.
RoundNorm(neg, n) == RoundAt(neg, n, Max(Top(n) - 24, -149))

RoundToF32(neg, m, e) ==
    IF m = 0 THEN Zero(neg) ELSE RoundNorm(neg, Norm(neg, m, e))

F32One == [cls |-> "fin", neg |-> FALSE, m |-> 1, e |-> 0]

\* f32::MAX = (2^24 - 1) * 2^104
F32MAX == [cls |-> "fin", neg |-> FALSE, m |-> 16777215, e |-> 104]

\* The value with sign neg, biased exponent ex and fraction frac.
F32FromBits(neg, ex, frac) ==
    IF ex = 255 THEN (IF frac = 0 THEN Inf(neg) ELSE NaN)
    ELSE IF ex = 0 THEN Norm(neg, frac, -149)
    ELSE Norm(neg, 8388608 + frac, ex - 150)

\* f32::from_le_bytes
F32FromLeBytes(b) ==
    F32FromBits(b[4] >= 128, (b[4] % 128) * 2 + (b[3] \div 128),
                (b[3] % 128) * 65536 + b[2] * 256 + b[1])

IsFinite(x) == x.cls = "fin"

\* |x| < |y| for finite values.  With equal leading bits the mantissas are
\* compared at the smaller exponent, where both have at most 24 bits.
MagLt(x, y) ==
    IF y.m = 0 THEN FALSE
    ELSE IF x.m = 0 THEN TRUE
    ELSE IF Top(x) # Top(y) THEN Top(x) < Top(y)
    ELSE x.m * Pow2(x.e - Min(x.e, y.e)) < y.m * Pow2(y.e - Min(x.e, y.e))

\* x < y as f32 comparison (false when either is NaN; -0.0 = 0.0)
F32Lt(x, y) ==
    IF x.cls = "nan" \/ y.cls = "nan" THEN FALSE
    ELSE IF x.cls = "inf" THEN x.neg /\ ~(y.cls = "inf" /\ y.neg)
    ELSE IF y.cls = "inf" THEN ~y.neg
    ELSE IF x.neg /\ ~y.neg THEN x.m # 0 \/ y.m # 0
    ELSE IF ~x.neg /\ y.neg THEN FALSE
    ELSE IF x.neg THEN MagLt(y, x)
    ELSE MagLt(x, y)

F32Le(x, y) ==
    IF x.cls = "nan" \/ y.cls = "nan" THEN FALSE ELSE ~F32Lt(y, x)

\* x * y
F32Mul(x, y) ==
    IF x.cls = "nan" \/ y.cls = "nan" THEN NaN
    ELSE IF x.cls = "inf" \/ y.cls = "inf"
         THEN IF (x.cls = "fin" /\ x.m = 0) \/ (y.cls = "fin" /\ y.m = 0)
              THEN NaN ELSE Inf(x.neg # y.neg)
    ELSE RoundToF32(x.neg # y.neg, x.m * y.m, x.e + y.e)

\* The finite x as a signed multiple of 2^lo.
Signed(x, lo) == (IF x.neg THEN -1 ELSE 1) * x.m * Pow2(x.e - lo)

RoundSigned(s, lo) ==
    IF s = 0 THEN Zero(FALSE) ELSE RoundToF32(s < 0, Abs(s), lo)

AddAt(x, y, lo) == RoundSigned(Signed(x, lo) + Signed(y, lo), lo)

\* x + y.  An addend more than 27 binary places below the other is less
\* than a quarter of its last place and leaves it unchanged; otherwise the
\* sum is formed exactly and rounded.
F32Add(x, y) ==
    IF x.cls = "nan" \/ y.cls = "nan" THEN NaN
    ELSE IF x.cls = "inf"
         THEN IF y.cls = "inf" /\ y.neg # x.neg THEN NaN ELSE x
    ELSE IF y.cls = "inf" THEN y
    ELSE IF x.m = 0 THEN (IF y.m = 0 THEN Zero(x.neg /\ y.neg) ELSE y)
    ELSE IF y.m = 0 THEN x
    ELSE IF Top(x) - Top(y) > 27 THEN x
    ELSE IF Top(y) - Top(x) > 27 THEN y
    ELSE AddAt(x, y, Min(x.e, y.e))

F32Neg(x) == IF x.cls = "nan" THEN x ELSE [x EXCEPT !.neg = ~@]

\* x - y
F32Sub(x, y) == F32Add(x, F32Neg(y))

RoundHalfAway(neg, q, r, d) == Norm(neg, IF 2 * r >= d THEN q + 1 ELSE q, 0)

\* f32::round: to the nearest integer, halves away from zero
F32Round(x) ==
    IF x.cls # "fin" \/ x.e >= 0 THEN x
    ELSE IF -x.e > 25 THEN Zero(x.neg)
    ELSE RoundHalfAway(x.neg, x.m \div Pow2(-x.e), x.m % Pow2(-x.e), Pow2(-x.e))

\* f32::clamp(min, max): NaN stays NaN
F32Clamp(x, min, max) ==
    IF F32Lt(x, min) THEN min ELSE IF F32Lt(max, x) THEN max ELSE x

\* `x as u32`: saturating, truncating toward zero, NaN to 0
F32AsU32(x) ==
    IF x.cls = "nan" THEN U32Zero
    ELSE IF x.neg THEN U32Zero
    ELSE IF x.cls = "inf" THEN U32MAX
    ELSE IF x.m = 0 THEN U32Zero
    ELSE IF x.e < 0
         THEN IF -x.e > 25 THEN U32Zero ELSE U32(x.m \div Pow2(-x.e))
    ELSE IF BitLen(x.m) + x.e > 32 THEN U32MAX
    ELSE IF x.e >= 16 THEN <<x.m * Pow2(x.e - 16), 0>>
    ELSE <<x.m \div Pow2(16 - x.e), (x.m % Pow2(16 - x.e)) * Pow2(x.e)>>

\* ------------------------------------------------------- renderer state

\* The fields of RendererHandle that the operations read or write, as one
\* record, together with the effects on the GPU performed so far in the
\* current call (events).
Self ==
    [config |-> config, surface |-> surface, scene |-> scene,
     base_color |-> base_color, offscreen |-> offscreen,
     present_bind_group |-> present_bind_group,
     present_pipeline |-> present_pipeline, events |-> <<>>]

Emit(s, e) == [s EXCEPT !.events = Append(@, e)]

\* self.surface.configure(&self.device, &self.config)
configure(s) ==
    Emit([s EXCEPT !.surface = [width |-> s.config.width, height |-> s.config.height]],
         [ev |-> "configure", width |-> s.config.width, height |-> s.config.height])

\* resize, lines 179-183, without the invalidation
resize_changed_keeping_target(s, width, height) ==
    configure([s EXCEPT !.config.width = width, !.config.height = height])

\* resize, lines 179-183, with the bind group left in place
resize_changed_keeping_bind_group(s, width, height) ==
    [configure([s EXCEPT !.config.width = width, !.config.height = height])
        EXCEPT !.offscreen = None]

\* resize, lines 179-183
resize_changed(s, width, height) ==
    [configure([s EXCEPT !.config.width = width, !.config.height = height])
        EXCEPT !.offscreen = None, !.present_bind_group = None]

\* RendererHandle::resize without the check for the current size
resize_to_any_size(s, width, height) ==
    IF width = U32Zero \/ height = U32Zero THEN s
    ELSE resize_changed(s, width, height)

\* RendererHandle::resize
resize(s, width, height) ==
    IF width = U32Zero \/ height = U32Zero THEN s
    ELSE IF s.config.width = width /\ s.config.height = height THEN s
    ELSE resize_changed(s, width, height)

\* The view of a texture created now: a name no live object holds.  Views
\* are compared only with each other, so a dead view's name may be reused.
Held(s) ==
    (IF IsSome(s.offscreen) THEN {s.offscreen.val.view} ELSE {})
    \cup (IF IsSome(s.present_bind_group) THEN {s.present_bind_group.val.view} ELSE {})

FreshView(s) == CHOOSE v \in 1..3 : v \notin Held(s) /\ \A u \in 1..(v - 1) : u \in Held(s)

\* ensure_offscreen_target, the recreation (lines 507-532)
create_offscreen(s, view) ==
    [Emit(s, [ev |-> "create_texture", view |-> view,
              width |-> U32Max1(s.config.width),
              height |-> U32Max1(s.config.height)])
        EXCEPT !.offscreen = Some([view |-> view, width |-> s.config.width,
                                   height |-> s.config.height]),
               !.present_bind_group = None]

\* ensure_offscreen_target, recreating the target on every call
ensure_offscreen_target_every_time(s) == create_offscreen(s, FreshView(s))

\* RendererHandle::ensure_offscreen_target
ensure_offscreen_target(s) ==
    IF \/ ~IsSome(s.offscreen)
       \/ s.offscreen.val.width # s.config.width
       \/ s.offscreen.val.height # s.config.height
    THEN create_offscreen(s, FreshView(s))
    ELSE s

\* RendererHandle::ensure_present_bind_group
ensure_present_bind_group(s, view) ==
    IF ~IsSome(s.present_bind_group)
    THEN [Emit(s, [ev |-> "create_bind_group", view |-> view])
            EXCEPT !.present_bind_group = Some([view |-> view])]
    ELSE s

\* RendererHandle::ensure_present_pipeline
ensure_present_pipeline(s) ==
    IF \/ ~IsSome(s.present_pipeline)
       \/ s.present_pipeline.val.format # s.config.format
    THEN [Emit(s, [ev |-> "create_pipeline", format |-> s.config.format])
            EXCEPT !.present_pipeline = Some([format |-> s.config.format])]
    ELSE s

\* What get_current_texture can report: a frame, or a wgpu::SurfaceError.
SurfaceResults == {"Ok", "Lost", "Outdated", "OutOfMemory", "Timeout", "Other"}

NoDecoder == [data |-> <<>>, offset |-> 0, read_end |-> 0]

\* What a call returns: the renderer afterwards, the result and, for apply,
\* the decoder as it was left.
Return(s, ret) == [self |-> s, d |-> NoDecoder, ret |-> ret]

\* render, with the frame kept alive when the rasterizer fails
rasterize_and_present_holding_frame(s, raster) ==
    IF raster # "Ok"
    THEN Return(s, "Render failed")
    ELSE Return(Emit(Emit(s, [ev |-> "submit",
                              view |-> s.present_bind_group.val.view,
                              format |-> s.present_pipeline.val.format]),
                     [ev |-> "present"]), "Ok")

\* render, from the rasterize pass on (lines 462-495).  s has the target,
\* bind group and pipeline in place.  A frame not presented is dropped when
\* render returns.
rasterize_and_present(s, raster) ==
    IF raster # "Ok"
    THEN Return(Emit(s, [ev |-> "drop_frame"]), "Render failed")
    ELSE Return(Emit(Emit(s, [ev |-> "submit",
                              view |-> s.present_bind_group.val.view,
                              format |-> s.present_pipeline.val.format]),
                     [ev |-> "present"]), "Ok")

\* self.renderer.render_to_texture(.., &self.scene, &offscreen_view, &params)
render_to_texture(s, view, width, height, color, raster) ==
    Emit(s, [ev |-> "rasterize", view |-> view, width |-> width,
             height |-> height, base_color |-> color, result |-> raster])

\* render, with the scene rasterized before bind group and pipeline are seen to
render_on_target_rasterizing_first(s, width, height, raster) ==
    rasterize_and_present(
        ensure_present_pipeline(
            ensure_present_bind_group(
                render_to_texture(s, s.offscreen.val.view, width, height,
                                  s.base_color, raster),
                s.offscreen.val.view)),
        raster)

\* render, lines 453-461: s has the offscreen target in place.
render_on_target(s, width, height, raster) ==
    rasterize_and_present(
        render_to_texture(
            ensure_present_pipeline(
                ensure_present_bind_group(s, s.offscreen.val.view)),
            s.offscreen.val.view, width, height, s.base_color, raster),
        raster)

\* render, from the acquired frame on (lines 443-496).  raster is the result
\* of Renderer::render_to_texture, an external collaborator.
render_frame(s, raster) ==
    render_on_target(ensure_offscreen_target(s), s.config.width, s.config.height,
                     raster)

acquire(s, result) == Emit(s, [ev |-> "acquire", result |-> result])

\* render, with a retry that configures and acquires once more when it fails
render_retry_again(s, second, raster) ==
    IF second = "Ok" THEN render_frame(s, raster)
    ELSE Return(acquire(configure(s), second), "Failed to acquire surface")

\* render, the retry after Lost or Outdated (lines 437-439)
render_retry(s, second, raster) ==
    IF second = "Ok" THEN render_frame(s, raster)
    ELSE Return(s, "Failed to acquire surface")

\* render, with Outdated taken for an error like Other
render_acquired_Lost_only(s, first, second, raster) ==
    CASE first = "Ok" -> render_frame(s, raster)
      [] first = "Lost" ->
            render_retry(acquire(configure(s), second), second, raster)
      [] first = "OutOfMemory" -> Return(s, "WebGPU surface out of memory")
      [] first = "Timeout" -> Return(s, "Ok")
      [] OTHER -> Return(s, "WebGPU surface error")

\* render, after the first get_current_texture (lines 417-441)
render_acquired(s, first, second, raster) ==
    CASE first = "Ok" -> render_frame(s, raster)
      [] first \in {"Lost", "Outdated"} ->
            render_retry(acquire(configure(s), second), second, raster)
      [] first = "OutOfMemory" -> Return(s, "WebGPU surface out of memory")
      [] first = "Timeout" -> Return(s, "Ok")
      [] OTHER -> Return(s, "WebGPU surface error")

\* render, with Other recovered like Lost: reconfigure and retry
render_recovering_Other(s, first, second, raster) ==
    render_acquired(acquire(s, first),
                    IF first = "Other" THEN "Lost" ELSE first, second, raster)

\* RendererHandle::render.  first and second are what the two possible
\* calls of get_current_texture report.
render(s, first, second, raster) ==
    render_acquired(acquire(s, first), first, second, raster)

\* -------------------------------------------------------------- Decoder

\* A Decoder is [data, offset, read_end]: the borrowed bytes, the 0-based
\* offset, and (for the record) one past the highest index read so far.
\* The result of a read is [err, d, val]; err = "" on success, "panic" when
\* an index or a slice leaves the buffer, and otherwise the error message.

Ok(d, v) == [err |-> "", d |-> d, val |-> v]

Err(d, msg) == [err |-> msg, d |-> d, val |-> <<>>]

\* Decoder::new
Decoder_new(data) == [data |-> data, offset |-> 0, read_end |-> 0]

\* Decoder::remaining: data.len().saturating_sub(offset)
remaining(d) == IF Len(d.data) >= d.offset THEN Len(d.data) - d.offset ELSE 0

\* &self.data[self.offset..self.offset + n] followed by self.offset += n
take(d, n) ==
    IF d.offset + n > Len(d.data) THEN Err(d, "panic")
    ELSE Ok([d EXCEPT !.offset = d.offset + n,
                      !.read_end = IF n > 0 /\ d.offset + n > @
                                   THEN d.offset + n ELSE @],
            SubSeq(d.data, d.offset + 1, d.offset + n))

\* OpCode::from_byte with 0 taken for the end marker
OpCode_from_byte_zero_ends(byte) ==
    CASE byte = 1   -> Some("BeginFrame")
      [] byte = 2   -> Some("Rect")
      [] byte = 3   -> Some("Path")
      [] byte = 4   -> Some("Text")
      [] byte \in {0, 255} -> Some("EndFrame")
      [] OTHER      -> None

\* OpCode::from_byte
OpCode_from_byte(byte) ==
    CASE byte = 1   -> Some("BeginFrame")
      [] byte = 2   -> Some("Rect")
      [] byte = 3   -> Some("Path")
      [] byte = 4   -> Some("Text")
      [] byte = 255 -> Some("EndFrame")
      [] OTHER      -> None

\* The opcode of a byte, or the decode error.
opcode_or_err(d, op) ==
    IF IsSome(op) THEN Ok(d, op) ELSE Err(d, "Unknown opcode")

\* A slice just taken, converted as the read asks.
decoded(t, kind) ==
    IF t.err # "" THEN t
    ELSE CASE kind = "opcode" -> opcode_or_err(t.d, OpCode_from_byte(t.val[1]))
           [] kind = "f32" -> Ok(t.d, F32FromLeBytes(t.val))
           [] kind = "u8"  -> Ok(t.d, t.val[1])
           [] OTHER        -> Ok(t.d, <<t.val[4] * 256 + t.val[3],
                                        t.val[2] * 256 + t.val[1]>>)

\* Decoder::next_opcode with the end of the buffer taken for a short read
next_opcode_wants_EndFrame(d) ==
    IF remaining(d) = 0 THEN Err(d, "Unexpected end of buffer")
    ELSE decoded(take(d, 1), "opcode")

\* Decoder::next_opcode: val is None at the end of the buffer
next_opcode(d) ==
    IF remaining(d) = 0 THEN Ok(d, None) ELSE decoded(take(d, 1), "opcode")

\* Decoder::read_f32
read_f32(d) ==
    IF remaining(d) < 4 THEN Err(d, "Unexpected end of buffer")
    ELSE decoded(take(d, 4), "f32")

\* Decoder::read_u8
read_u8(d) ==
    IF remaining(d) < 1 THEN Err(d, "Unexpected end of buffer")
    ELSE decoded(take(d, 1), "u8")

\* Decoder::read_u32
read_u32(d) ==
    IF remaining(d) < 4 THEN Err(d, "Unexpected end of buffer")
    ELSE decoded(take(d, 4), "u32")

read_one(d, kind) ==
    CASE kind = "f32" -> read_f32(d)
      [] kind = "u8"  -> read_u8(d)
      [] OTHER        -> read_u32(d)

\* A run of `decoder.read_x()?` statements: kinds is the sequence of the
\* reads ("f32", "u8", "u32"); stops at the first one that fails.
RECURSIVE read_fields(_, _, _)
read_next(r, kinds, acc) ==
    IF r.err # "" THEN Err(r.d, r.err)
    ELSE read_fields(r.d, kinds, Append(acc, r.val))

read_fields(d, kinds, acc) ==
    IF kinds = <<>> THEN Ok(d, acc)
    ELSE read_next(read_one(d, Head(kinds)), Tail(kinds), acc)

Rep(n, x) == [i \in 1..n |-> x]

\* Decoder::read_mat3: six read_f32
read_mat3(d) == read_fields(d, Rep(6, "f32"), <<>>)

\* String::from_utf8 on a byte slice: the sequence of code points, or an
\* error.  Overlong forms, surrogates and values above 0x10FFFF are invalid.
IsCont(b) == b >= 128 /\ b <= 191

RECURSIVE from_utf8(_, _)
from_utf8(b, acc) ==
    IF b = <<>> THEN [ok |-> TRUE, chars |-> acc]
    ELSE LET b1 == b[1]
             n  == Len(b)
             bad == [ok |-> FALSE, chars |-> <<>>]
         IN  IF b1 < 128 THEN from_utf8(Tail(b), Append(acc, b1))
             ELSE IF b1 >= 194 /\ b1 <= 223
                  THEN IF n >= 2 /\ IsCont(b[2])
                       THEN from_utf8(SubSeq(b, 3, n),
                                      Append(acc, (b1 - 192) * 64 + (b[2] - 128)))
                       ELSE bad
             ELSE IF b1 >= 224 /\ b1 <= 239
                  THEN IF n >= 3 /\ IsCont(b[2]) /\ IsCont(b[3])
                          /\ (b1 = 224 => b[2] >= 160)
                          /\ (b1 = 237 => b[2] <= 159)
                       THEN from_utf8(SubSeq(b, 4, n),
                                      Append(acc, (b1 - 224) * 4096
                                                  + (b[2] - 128) * 64 + (b[3] - 128)))
                       ELSE bad
             ELSE IF b1 >= 240 /\ b1 <= 244
                  THEN IF n >= 4 /\ IsCont(b[2]) /\ IsCont(b[3]) /\ IsCont(b[4])
                          /\ (b1 = 240 => b[2] >= 144)
                          /\ (b1 = 244 => b[2] <= 143)
                       THEN from_utf8(SubSeq(b, 5, n),
                                      Append(acc, (b1 - 240) * 262144
                                                  + (b[2] - 128) * 4096
                                                  + (b[3] - 128) * 64 + (b[4] - 128)))
                       ELSE bad
             ELSE bad

\* String::from_utf8(bytes.to_vec()).map_err(..)
string_or_err(d, s) ==
    IF s.ok THEN Ok(d, s.chars) ELSE Err(d, "Invalid UTF-8 in path data")

string_of(t) ==
    IF t.err # "" THEN t ELSE string_or_err(t.d, from_utf8(t.val, <<>>))

\* Decoder::read_string without the check of the remaining bytes
read_string_unchecked(d, len) == string_of(take(d, U32ToNat(len)))

\* Decoder::read_string; len is the u32 read before it, `as usize`
read_string(d, len) ==
    IF U32Lt(U32(remaining(d)), len) THEN Err(d, "Unexpected end of buffer")
    ELSE string_of(take(d, U32ToNat(len)))

\* -------------------------------------------------------- scene builder

\* The scene is the sequence of the calls made on vello::Scene since its
\* last reset: fill, stroke and draw_glyphs, each with its arguments.

\* Color::new([r, g, b, (a * opacity).clamp(0.0, 1.0)])
Color(r, g, b, a, opacity) ==
    <<r, g, b, F32Clamp(F32Mul(a, opacity), Zero(FALSE), F32One)>>

\* self.scene.fill(style, affine, color, None, shape)
scene_fill(s, style, affine, color, shape) ==
    [s EXCEPT !.scene = Append(@, [cmd |-> "fill", style |-> style,
                                   transform |-> affine, brush |-> color,
                                   shape |-> shape])]

\* self.scene.stroke(&Stroke::new(width), affine, color, None, shape)
scene_stroke(s, width, affine, color, shape) ==
    [s EXCEPT !.scene = Append(@, [cmd |-> "stroke", width |-> width,
                                   transform |-> affine, brush |-> color,
                                   shape |-> shape])]

\* The result of one opcode's arm of apply's match.
Step(s, d, err) == [self |-> s, d |-> d, err |-> err]

\* (logical * dpr).round().clamp(1.0, f32::MAX) as u32
frame_extent(logical, dpr) ==
    F32AsU32(F32Clamp(F32Round(F32Mul(logical, dpr)), F32One, F32MAX))

\* apply, OpCode::BeginFrame, with the color of the first BeginFrame kept
begin_frame_color_first_wins(s, g) ==
    IF g.err # "" THEN Step(s, g.d, g.err)
    ELSE IF s.base_color # <<Zero(FALSE), Zero(FALSE), Zero(FALSE), F32One>>
         THEN Step(s, g.d, "")
    ELSE Step([s EXCEPT !.base_color = g.val], g.d, "")

\* apply, OpCode::BeginFrame, the color (lines 203-207)
begin_frame_color(s, g) ==
    IF g.err # "" THEN Step(s, g.d, g.err)
    ELSE Step([s EXCEPT !.base_color = g.val], g.d, "")

\* apply, OpCode::BeginFrame, with the surface configured for every record
begin_frame_size_always_configuring(s, f) ==
    IF f.err # "" THEN Step(s, f.d, f.err)
    ELSE begin_frame_color(resize_to_any_size(s, frame_extent(f.val[1], f.val[3]),
                                              frame_extent(f.val[2], f.val[3])),
                           read_fields(f.d, Rep(4, "f32"), <<>>))

\* apply, OpCode::BeginFrame, the size (lines 200-202)
begin_frame_size(s, f) ==
    IF f.err # "" THEN Step(s, f.d, f.err)
    ELSE begin_frame_color(resize(s, frame_extent(f.val[1], f.val[3]),
                                  frame_extent(f.val[2], f.val[3])),
                           read_fields(f.d, Rep(4, "f32"), <<>>))

\* apply, OpCode::BeginFrame, with nothing done before all fields are read
begin_frame_whole(s, f) ==
    IF f.err # "" THEN Step(s, f.d, f.err)
    ELSE Step([resize(s, frame_extent(f.val[1], f.val[3]),
                      frame_extent(f.val[2], f.val[3]))
                 EXCEPT !.base_color = SubSeq(f.val, 4, 7)],
              f.d, "")

apply_BeginFrame_all_or_nothing(s, d) ==
    begin_frame_whole(s, read_fields(d, Rep(7, "f32"), <<>>))

\* apply, OpCode::BeginFrame
apply_BeginFrame(s, d) == begin_frame_size(s, read_fields(d, Rep(3, "f32"), <<>>))

\* RoundedRect::new(ox, oy, ox + width, oy + height, radius)
RoundedRect(ox, oy, width, height, radius) ==
    [kind |-> "rounded_rect", x0 |-> ox, y0 |-> oy,
     x1 |-> F32Add(ox, width), y1 |-> F32Add(oy, height), radius |-> radius]

\* apply, OpCode::Rect, the fill (lines 226-239).  Fields: opacity,
\* transform[6], ox, oy, width, height, radius, r, g, b, a.
rect_fill(s, f) ==
    IF f.err # "" THEN Step(s, f.d, f.err)
    ELSE Step(scene_fill(s, "NonZero", SubSeq(f.val, 2, 7),
                         Color(f.val[13], f.val[14], f.val[15], f.val[16], f.val[1]),
                         RoundedRect(f.val[8], f.val[9], f.val[10], f.val[11],
                                     f.val[12])),
              f.d, "")

\* apply, OpCode::Rect
apply_Rect(s, d) == rect_fill(s, read_fields(d, Rep(16, "f32"), <<>>))

\* BezPath::from_svg (kurbo), for path data made of the absolute commands
\* M, L and Z with unsigned integer coordinates separated by white space or
\* commas; a coordinate pair after a complete M or L repeats L.  Any other
\* command letter, a drawing command before the first M, or a missing
\* coordinate is an error.
IsDigit(c) == c >= 48 /\ c <= 57

IsSvgSpace(c) == c \in {32, 9, 10, 13}

RECURSIVE svg_skip(_, _, _)
svg_skip(str, i, commas) ==
    IF i <= Len(str) /\ (IsSvgSpace(str[i]) \/ (commas /\ str[i] = 44))
    THEN svg_skip(str, i + 1, commas) ELSE i

RECURSIVE svg_digits(_, _, _)
svg_digits(str, i, acc) ==
    IF i <= Len(str) /\ IsDigit(str[i])
    THEN svg_digits(str, i + 1, acc * 10 + (str[i] - 48))
    ELSE [next |-> i, val |-> acc]

\* One coordinate starting at index j, white space and commas skipped.
svg_number_at(str, j) ==
    IF j <= Len(str) /\ IsDigit(str[j])
    THEN [ok |-> TRUE] @@ svg_digits(str, j, 0)
    ELSE [ok |-> FALSE, next |-> j, val |-> 0]

svg_number(str, i) == svg_number_at(str, svg_skip(str, i, TRUE))

SvgBad == [ok |-> FALSE, els |-> <<>>]

RECURSIVE svg_parse(_, _, _, _)
\* The two coordinates of an M or L.
svg_point(str, verb, x, y, els) ==
    IF ~x.ok \/ ~y.ok THEN SvgBad
    ELSE svg_parse(str, y.next, 76, Append(els, <<verb, x.val, y.val>>))

svg_point_x(str, verb, x, els) ==
    svg_point(str, verb, x, svg_number(str, x.next), els)

\* The command cmd whose arguments start at index k.
svg_command(str, cmd, k, els) ==
    IF cmd # 77 /\ els = <<>> THEN SvgBad
    ELSE IF cmd \in {77, 76}
    THEN svg_point_x(str, IF cmd = 77 THEN "M" ELSE "L", svg_number(str, k), els)
    ELSE IF cmd = 90 THEN svg_parse(str, k, 0, Append(els, <<"Z">>))
    ELSE SvgBad

svg_element(str, j, last_cmd, els) ==
    IF j > Len(str) THEN [ok |-> TRUE, els |-> els]
    ELSE IF last_cmd # 0 /\ IsDigit(str[j]) THEN svg_command(str, last_cmd, j, els)
    ELSE svg_command(str, str[j], j + 1, els)

svg_parse(str, i, last_cmd, els) ==
    svg_element(str, svg_skip(str, i, FALSE), last_cmd, els)

BezPath_from_svg(str) == svg_parse(str, 1, 0, <<>>)

BezPath(els) == [kind |-> "path", els |-> els]

\* apply, OpCode::Path, the stroke (lines 296-299)
path_stroke(s, affine, stroke_info, bez_path) ==
    IF IsSome(stroke_info)
    THEN scene_stroke(s, stroke_info.val.width, affine, stroke_info.val.color,
                      bez_path)
    ELSE s

\* apply, OpCode::Path, the fill, even-odd for every fill_rule but 0
path_fill_EvenOdd_unless_zero(s, fill_rule, affine, fill_color, bez_path) ==
    IF IsSome(fill_color)
    THEN scene_fill(s, IF fill_rule # 0 THEN "EvenOdd" ELSE "NonZero", affine,
                    fill_color.val, bez_path)
    ELSE s

\* apply, OpCode::Path, the fill (lines 286-294)
path_fill(s, fill_rule, affine, fill_color, bez_path) ==
    IF IsSome(fill_color)
    THEN scene_fill(s, IF fill_rule = 1 THEN "EvenOdd" ELSE "NonZero", affine,
                    fill_color.val, bez_path)
    ELSE s

\* apply, OpCode::Path, with the result of the parse ignored
emit_path_unparsed(s, parsed, fill_rule, affine, fill_color, stroke_info) ==
    path_stroke(path_fill(s, fill_rule, affine, fill_color, BezPath(parsed.els)),
                affine, stroke_info, BezPath(parsed.els))

\* apply, OpCode::Path, from the parsed path on (lines 285-300)
emit_path(s, parsed, fill_rule, affine, fill_color, stroke_info) ==
    IF parsed.ok
    THEN path_stroke(path_fill(s, fill_rule, affine, fill_color, BezPath(parsed.els)),
                     affine, stroke_info, BezPath(parsed.els))
    ELSE s

\* apply, OpCode::Path, after the path data (lines 282-300).  v holds
\* opacity, transform[6], fill_rule and has_fill.
path_data(s, v, fill_color, stroke_info, str) ==
    IF str.err # "" THEN Step(s, str.d, str.err)
    ELSE Step(emit_path(s, BezPath_from_svg(str.val), v[8], SubSeq(v, 2, 7),
                        fill_color, stroke_info),
              str.d, "")

\* apply, OpCode::Path, after the length of the path data (lines 281-282)
path_length(s, v, fill_color, stroke_info, len) ==
    IF len.err # "" THEN Step(s, len.d, len.err)
    ELSE path_data(s, v, fill_color, stroke_info, read_string(len.d, len.val))

\* apply, OpCode::Path, after the stroke's fields (lines 269-281)
path_stroke_info(s, v, fill_color, has_stroke, sc) ==
    IF sc.err # "" THEN Step(s, sc.d, sc.err)
    ELSE path_length(s, v, fill_color,
                     IF has_stroke
                     THEN Some([width |-> sc.val[1],
                                color |-> Color(sc.val[2], sc.val[3], sc.val[4],
                                                sc.val[5], v[1])])
                     ELSE None,
                     read_u32(sc.d))

\* apply, OpCode::Path, after has_stroke (lines 268-278)
path_has_stroke(s, v, fill_color, hs) ==
    IF hs.err # "" THEN Step(s, hs.d, hs.err)
    ELSE path_stroke_info(s, v, fill_color, hs.val # 0,
                          IF hs.val # 0 THEN read_fields(hs.d, Rep(5, "f32"), <<>>)
                          ELSE Ok(hs.d, <<>>))

\* apply, OpCode::Path, after the fill's color (lines 257-268)
path_fill_color(s, v, fc) ==
    IF fc.err # "" THEN Step(s, fc.d, fc.err)
    ELSE path_has_stroke(s, v,
                         IF v[9] # 0
                         THEN Some(Color(fc.val[1], fc.val[2], fc.val[3], fc.val[4],
                                         v[1]))
                         ELSE None,
                         read_u8(fc.d))

\* apply, OpCode::Path, after opacity, transform, fill_rule and has_fill
path_head(s, f) ==
    IF f.err # "" THEN Step(s, f.d, f.err)
    ELSE path_fill_color(s, f.val,
                         IF f.val[9] # 0 THEN read_fields(f.d, Rep(4, "f32"), <<>>)
                         ELSE Ok(f.d, <<>>))

\* apply, OpCode::Path
apply_Path(s, d) ==
    path_head(s, read_fields(d, Rep(7, "f32") \o <<"u8", "u8">>, <<>>))

\* ----------------------------------------------------------------- text

\* TextAlign::from_u8
TextAlign_from_u8(value) ==
    CASE value = 1 -> "Center" [] value = 2 -> "End" [] OTHER -> "Start"

\* The embedded font, as far as apply consults it.  The asset itself is not
\* part of the sources; this stand-in maps ' ', 'a', 'b' and 'W' to glyphs
\* 1..4, leaves every other character unmapped, and gives advances and
\* metrics as multiples of a quarter of the font size.
Quarter(n) == Norm(FALSE, n, -2)

\* charmap.map(ch)
charmap_map(ch) ==
    CASE ch = 32 -> Some(1) [] ch = 97 -> Some(2) [] ch = 98 -> Some(3)
      [] ch = 87 -> Some(4) [] OTHER -> None

GlyphId_NOTDEF == 0

\* glyph_metrics.advance_width(glyph_id) at the given size
advance_width(glyph_id, size) ==
    CASE glyph_id = 0 -> Some(F32Mul(size, Quarter(2)))
      [] glyph_id = 1 -> Some(F32Mul(size, Quarter(1)))
      [] glyph_id = 2 -> Some(F32Mul(size, Quarter(2)))
      [] glyph_id = 3 -> Some(F32Mul(size, Quarter(3)))
      [] glyph_id = 4 -> Some(F32Mul(size, Quarter(4)))
      [] OTHER -> None

\* font_ref.metrics(size, ..)
font_metrics(size) ==
    [ascent  |-> F32Mul(size, Quarter(3)),
     descent |-> F32Mul(size, [Quarter(1) EXCEPT !.neg = TRUE]),
     leading |-> Zero(FALSE),
     average_width |-> Some(F32Mul(size, Quarter(2)))]


unwrap_or(o, default) == IF IsSome(o) THEN o.val ELSE default

\* One character's contribution to a width or a pen position.
char_advance(ch, size, fallback_width) ==
    IF ch = 9 THEN F32Mul(fallback_width, Norm(FALSE, 4, 0))
    ELSE unwrap_or(advance_width(unwrap_or(charmap_map(ch), GlyphId_NOTDEF), size),
                   fallback_width)

\* measure_text_width
RECURSIVE measure_from(_, _, _, _)
measure_from(text, size, fallback_width, width) ==
    IF text = <<>> THEN width
    ELSE measure_from(Tail(text), size, fallback_width,
                      F32Add(width, char_advance(Head(text), size, fallback_width)))

measure_text_width(text, size, fallback_width) ==
    measure_from(text, size, fallback_width, Zero(FALSE))

\* str::split(sep): the pieces between the separators, empty ones kept
RECURSIVE split(_, _, _, _)
split(text, sep, cur, acc) ==
    IF text = <<>> THEN Append(acc, cur)
    ELSE IF Head(text) = sep THEN split(Tail(text), sep, <<>>, Append(acc, cur))
    ELSE split(Tail(text), sep, Append(cur, Head(text)), acc)

\* char::is_whitespace (Unicode White_Space)
is_whitespace(c) ==
    \/ c >= 9 /\ c <= 13
    \/ c \in {32, 133, 160, 5760, 8232, 8233, 8239, 8287, 12288}
    \/ c >= 8192 /\ c <= 8202

\* str::split_whitespace: the maximal runs of non-white-space characters
RECURSIVE split_whitespace(_, _, _)
split_whitespace(text, cur, acc) ==
    IF text = <<>> THEN (IF cur = <<>> THEN acc ELSE Append(acc, cur))
    ELSE IF is_whitespace(Head(text))
         THEN split_whitespace(Tail(text), <<>>,
                               IF cur = <<>> THEN acc ELSE Append(acc, cur))
    ELSE split_whitespace(Tail(text), Append(cur, Head(text)), acc)

LineLayout(text, width) == [text |-> text, width |-> width]

\* wrap_text_lines, the loop over the words of one raw line (lines 832-858).
\* m holds max_width, space_width, size and fallback_width.
RECURSIVE wrap_words(_, _, _, _, _)
\* A word that follows another on the line, joined to it whatever the width
wrap_next_never_breaking(words, word, word_width, current, current_width, next_width, lines, m) ==
    wrap_words(words, current \o <<32>> \o word, next_width, lines, m)

\* A word that follows another on the line (lines 841-853)
wrap_next(words, word, word_width, current, current_width, next_width, lines, m) ==
    IF F32Le(next_width, m.max_width)
    THEN wrap_words(words, current \o <<32>> \o word, next_width, lines, m)
    ELSE wrap_words(words, word, word_width,
                    Append(lines, LineLayout(current, current_width)), m)

\* One word, measured, with the space left out of next_width
wrap_word_forgetting_space(words, word, word_width, current, current_width, lines, m) ==
    IF current = <<>> THEN wrap_words(words, word, word_width, lines, m)
    ELSE wrap_next(words, word, word_width, current, current_width,
                   F32Add(current_width, word_width), lines, m)

\* One word, measured (lines 834-853)
wrap_word(words, word, word_width, current, current_width, lines, m) ==
    IF current = <<>> THEN wrap_words(words, word, word_width, lines, m)
    ELSE wrap_next(words, word, word_width, current, current_width,
                   F32Add(F32Add(current_width, m.space_width), word_width),
                   lines, m)

wrap_words(words, current, current_width, lines, m) ==
    IF words = <<>> THEN Append(lines, LineLayout(current, current_width))
    ELSE wrap_word(Tail(words), Head(words),
                   measure_text_width(Head(words), m.size, m.fallback_width),
                   current, current_width, lines, m)

\* One raw line split into its words (lines 820-858)
wrap_line(words, lines, m) ==
    IF words = <<>> THEN Append(lines, LineLayout(<<>>, Zero(FALSE)))
    ELSE wrap_words(words, <<>>, Zero(FALSE), lines, m)

\* wrap_text_lines, the loop over the raw lines (lines 810-859)
RECURSIVE wrap_raw_lines(_, _, _, _)
wrap_raw_lines(raw, lines, wrap, m) ==
    IF raw = <<>> THEN lines
    ELSE wrap_raw_lines(Tail(raw),
            IF ~wrap
            THEN Append(lines, LineLayout(Head(raw),
                     measure_text_width(Head(raw), m.size, m.fallback_width)))
            ELSE wrap_line(split_whitespace(Head(raw), <<>>, <<>>), lines, m),
            wrap, m)

FinitePositive(x) == IsFinite(x) /\ F32Lt(Zero(FALSE), x)

\* wrap_text_lines, wrapping for every finite max_width
wrap_text_lines_for_any_finite(text, max_width, size, fallback_width) ==
    wrap_raw_lines(split(text, 10, <<>>, <<>>), <<>>, IsFinite(max_width),
                   [max_width |-> max_width,
                    space_width |-> measure_text_width(<<32>>, size, fallback_width),
                    size |-> size, fallback_width |-> fallback_width])

\* wrap_text_lines; size stands for the glyph_metrics instance
wrap_text_lines(text, max_width, size, fallback_width) ==
    wrap_raw_lines(split(text, 10, <<>>, <<>>), <<>>, FinitePositive(max_width),
                   [max_width |-> max_width,
                    space_width |-> measure_text_width(<<32>>, size, fallback_width),
                    size |-> size, fallback_width |-> fallback_width])

\* align_offset, for the width chosen at lines 865-869
align_within(align, width, line_width) ==
    CASE align = "Start"  -> Zero(FALSE)
      [] align = "Center" -> F32Mul(F32Sub(width, line_width), Norm(FALSE, 1, -1))
      [] OTHER            -> F32Sub(width, line_width)

\* align_offset
align_offset(align, max_width, line_width) ==
    align_within(align, IF FinitePositive(max_width) THEN max_width ELSE line_width,
                 line_width)

\* The glyphs of one line (lines 383-395): the pen starts at x.
RECURSIVE line_glyphs(_, _, _, _, _, _)
push_glyph(text, glyph_id, x, y, size, fallback_width, glyphs) ==
    line_glyphs(text,
                F32Add(x, unwrap_or(advance_width(glyph_id, size), fallback_width)),
                y, size, fallback_width,
                Append(glyphs, [id |-> glyph_id, x |-> x, y |-> y]))

line_glyphs(text, x, y, size, fallback_width, glyphs) ==
    IF text = <<>> THEN glyphs
    ELSE IF Head(text) = 9
    THEN line_glyphs(Tail(text), F32Add(x, F32Mul(fallback_width, Norm(FALSE, 4, 0))),
                     y, size, fallback_width, glyphs)
    ELSE push_glyph(Tail(text), unwrap_or(charmap_map(Head(text)), GlyphId_NOTDEF),
                    x, y, size, fallback_width, glyphs)

\* The glyphs of all lines (lines 378-397).  c holds align, max_width, ox,
\* line_height, size and fallback_width.
RECURSIVE layout_lines(_, _, _, _)
layout_lines(lines, y, c, glyphs) ==
    IF lines = <<>> THEN glyphs
    ELSE layout_lines(Tail(lines), F32Add(y, c.line_height), c,
             line_glyphs(Head(lines).text,
                         F32Add(c.ox, align_offset(c.align, c.max_width,
                                                   Head(lines).width)),
                         y, c.size, c.fallback_width, glyphs))

\* apply, OpCode::Text, the draw (lines 399-406)
text_draw(s, v, rgba, font_size, glyphs) ==
    IF glyphs # <<>>
    THEN [s EXCEPT !.scene =
             Append(@, [cmd |-> "draw_glyphs", font_size |-> font_size,
                        transform |-> SubSeq(v, 2, 7),
                        brush |-> Color(rgba[1], rgba[2], rgba[3], rgba[4], v[1]),
                        style |-> "NonZero", glyphs |-> glyphs])]
    ELSE s

\* apply, OpCode::Text, from the wrapped lines on (lines 363-406)
text_lines(s, v, align, rgba, font_size, ascent, lines, c) ==
    IF lines = <<>> THEN s
    ELSE text_draw(s, v, rgba, font_size,
                   layout_lines(lines, F32Add(v[9], ascent), c, <<>>))

\* apply, OpCode::Text, with the metrics settled (lines 361-362)
text_wrap(s, v, align, rgba, text, font_size, ascent, line_height, fallback_width) ==
    text_lines(s, v, align, rgba, font_size, ascent,
               wrap_text_lines(text, v[12], font_size, fallback_width),
               [align |-> align, max_width |-> v[12], ox |-> v[8],
                line_height |-> line_height, size |-> font_size,
                fallback_width |-> fallback_width])

\* let line_height = .. (lines 350-359)
effective_line_height(line_height, base, font_size) ==
    IF FinitePositive(line_height) THEN line_height
    ELSE IF FinitePositive(base) THEN base
    ELSE F32Mul(font_size, Norm(FALSE, 10066330, -23))

\* let fallback_width = .. (lines 346-349)
effective_fallback_width(average_width, font_size) ==
    IF IsSome(average_width) /\ FinitePositive(average_width.val)
    THEN average_width.val
    ELSE F32Mul(font_size, Norm(FALSE, 1, -1))

\* apply, OpCode::Text, with ascent, descent and leading settled
text_metrics(s, v, align, rgba, text, font_size, ascent, descent, leading, average_width) ==
    text_wrap(s, v, align, rgba, text, font_size, ascent,
              effective_line_height(v[11], F32Add(F32Sub(ascent, descent), leading),
                                    font_size),
              effective_fallback_width(average_width, font_size))

\* apply, OpCode::Text, with the font's metrics at hand (lines 332-345)
text_font(s, v, align, rgba, text, font_size, metrics) ==
    text_metrics(s, v, align, rgba, text, font_size,
                 IF IsFinite(metrics.ascent) THEN metrics.ascent
                 ELSE F32Mul(font_size, Norm(FALSE, 13421773, -24)),
                 IF IsFinite(metrics.descent) THEN metrics.descent
                 ELSE F32Mul(F32Neg(font_size), Norm(FALSE, 13421773, -26)),
                 IF IsFinite(metrics.leading) THEN metrics.leading ELSE Zero(FALSE),
                 metrics.average_width)

text_sized(s, v, align, rgba, text, font_size) ==
    text_font(s, v, align, rgba, text, font_size, font_metrics(font_size))

\* apply, OpCode::Text, from the decoded record on (lines 318-406).
\* FontRef::from_index on the embedded font is taken to succeed.
emit_text(s, v, align, rgba, text) ==
    IF text = <<>> THEN s
    ELSE text_sized(s, v, align, rgba, text,
                    IF FinitePositive(v[10]) THEN v[10] ELSE Norm(FALSE, 16, 0))

\* apply, OpCode::Text, after the text (lines 316-406)
text_string(s, f, text) ==
    IF text.err # "" THEN Step(s, text.d, text.err)
    ELSE Step(emit_text(s, SubSeq(f.val, 1, 12), TextAlign_from_u8(f.val[13]),
                        SubSeq(f.val, 14, 17), text.val),
              text.d, "")

\* apply, OpCode::Text, after the fixed fields (lines 303-315)
text_head(s, f) ==
    IF f.err # "" THEN Step(s, f.d, f.err)
    ELSE text_string(s, f, read_string(f.d, f.val[18]))

\* apply, OpCode::Text.  Fields: opacity, transform[6], ox, oy, font_size,
\* line_height, max_width, align, r, g, b, a, text_len, text.
apply_Text(s, d) ==
    text_head(s, read_fields(d, Rep(12, "f32") \o <<"u8">> \o Rep(4, "f32")
                                \o <<"u32">>, <<>>))

\* apply, the body of the decoding loop for one opcode other than EndFrame
apply_op(s, d, op) ==
    CASE op = "BeginFrame" -> apply_BeginFrame(s, d)
      [] op = "Rect"       -> apply_Rect(s, d)
      [] op = "Path"       -> apply_Path(s, d)
      [] OTHER             -> apply_Text(s, d)

Returned(s, d, ret) == [self |-> s, d |-> d, ret |-> ret]

\* apply, `while let Some(op) = decoder.next_opcode()? { .. }` (lines 194-412)
RECURSIVE apply_loop(_, _)
\* After the body of the loop, with the scene emptied when the record failed
apply_continue_emptying(r) ==
    IF r.err # "" THEN Returned([r.self EXCEPT !.scene = <<>>], r.d, r.err)
    ELSE apply_loop(r.self, r.d)

\* After the body of the loop: `?` returns, anything else loops.
apply_continue(r) ==
    IF r.err # "" THEN Returned(r.self, r.d, r.err) ELSE apply_loop(r.self, r.d)

\* After next_opcode, with EndFrame taken for a record without effect
apply_opcode_past_EndFrame(s, n) ==
    IF n.err # "" THEN Returned(s, n.d, n.err)
    ELSE IF ~IsSome(n.val) THEN Returned(s, n.d, "Ok")
    ELSE IF n.val.val = "EndFrame" THEN apply_loop(s, n.d)
    ELSE apply_continue(apply_op(s, n.d, n.val.val))

\* After next_opcode
apply_opcode(s, n) ==
    IF n.err # "" THEN Returned(s, n.d, n.err)
    ELSE IF ~IsSome(n.val) \/ n.val.val = "EndFrame" THEN Returned(s, n.d, "Ok")
    ELSE apply_continue(apply_op(s, n.d, n.val.val))

apply_loop(s, d) == apply_opcode(s, next_opcode(d))

OpaqueBlack == <<Zero(FALSE), Zero(FALSE), Zero(FALSE), F32One>>

\* apply without self.scene.reset()
apply_reset_keeping_scene(s) == [s EXCEPT !.base_color = OpaqueBlack]

\* self.scene.reset(); self.base_color = Color::new([0.0, 0.0, 0.0, 1.0])
apply_reset(s) == [s EXCEPT !.scene = <<>>, !.base_color = OpaqueBlack]

\* RendererHandle::apply
apply(s, bytes) == apply_loop(apply_reset(s), Decoder_new(bytes))

\* --------------------------------------------------------- display lists

\* The host's side of the wire format: records as the producer means them,
\* and their encoding.  A display list handed to apply is the encoding of a
\* sequence of records cut to some length.

\* f32::to_le_bytes
F32ToLeBytes(x) ==
    LET sign == IF x.neg THEN 128 ELSE 0
    IN  IF x.cls = "nan" THEN <<0, 0, 192, 127>>
        ELSE IF x.cls = "inf" THEN <<0, 0, 128, 127 + sign>>
        ELSE IF x.m = 0 THEN <<0, 0, 0, sign>>
        ELSE LET bl   == BitLen(x.m)
                 E    == x.e + bl - 1
                 ex   == IF E >= -126 THEN E + 127 ELSE 0
                 frac == IF E >= -126 THEN x.m * Pow2(24 - bl) - 8388608
                         ELSE x.m * Pow2(x.e + 149)
             IN  <<frac % 256, (frac \div 256) % 256,
                   (frac \div 65536) + (ex % 2) * 128, (ex \div 2) + sign>>

\* u32::to_le_bytes of a small length
LenToLeBytes(n) == <<n % 256, (n \div 256) % 256, (n \div 65536) % 256, n \div 16777216>>

RECURSIVE Flatten(_)
Flatten(ss) == IF ss = <<>> THEN <<>> ELSE Head(ss) \o Flatten(Tail(ss))

F32sToBytes(xs) == Flatten([i \in 1..Len(xs) |-> F32ToLeBytes(xs[i])])

F(n) == IF n < 0 THEN Norm(TRUE, -n, 0) ELSE Norm(FALSE, n, 0)

Identity == <<F(1), F(0), F(0), F(1), F(0), F(0)>>

\* The wire layout of one record (lines 196-316), opcode byte first.
Encode(rec) ==
    CASE rec.op = "BeginFrame" ->
            <<1>> \o F32sToBytes(<<rec.logical_width, rec.logical_height, rec.dpr>>
                                 \o rec.rgba)
      [] rec.op = "Rect" ->
            <<2>> \o F32sToBytes(<<rec.opacity>> \o rec.transform
                                 \o <<rec.ox, rec.oy, rec.width, rec.height, rec.radius>>
                                 \o rec.rgba)
      [] rec.op = "Path" ->
            <<3>> \o F32sToBytes(<<rec.opacity>> \o rec.transform)
                  \o <<rec.fill_rule, rec.has_fill>>
                  \o (IF rec.has_fill # 0 THEN F32sToBytes(rec.fill_rgba) ELSE <<>>)
                  \o <<rec.has_stroke>>
                  \o (IF rec.has_stroke # 0
                      THEN F32sToBytes(<<rec.stroke_width>> \o rec.stroke_rgba)
                      ELSE <<>>)
                  \o LenToLeBytes(Len(rec.str)) \o rec.str
      [] rec.op = "Text" ->
            <<4>> \o F32sToBytes(<<rec.opacity>> \o rec.transform
                                 \o <<rec.ox, rec.oy, rec.font_size, rec.line_height,
                                      rec.max_width>>)
                  \o <<rec.align>> \o F32sToBytes(rec.rgba)
                  \o LenToLeBytes(Len(rec.str)) \o rec.str
      [] rec.op = "EndFrame" -> <<255>>
      [] OTHER -> rec.bytes

BeginFrameRec(w, h, dpr, rgba) ==
    [op |-> "BeginFrame", logical_width |-> w, logical_height |-> h, dpr |-> dpr,
     rgba |-> rgba]

RectRec(opacity, ox, oy, w, h, rgba) ==
    [op |-> "Rect", opacity |-> opacity, transform |-> Identity, ox |-> ox, oy |-> oy,
     width |-> w, height |-> h, radius |-> F(0), rgba |-> rgba]

PathRec(fill_rule, has_fill, has_stroke, str) ==
    [op |-> "Path", opacity |-> F(1), transform |-> Identity, fill_rule |-> fill_rule,
     has_fill |-> has_fill, fill_rgba |-> <<F(0), F(1), F(0), F(1)>>,
     has_stroke |-> has_stroke, stroke_width |-> F(2),
     stroke_rgba |-> <<F(0), F(0), F(1), Quarter(2)>>, str |-> str]

TextRec(font_size, max_width, align, str) ==
    [op |-> "Text", opacity |-> Quarter(2), transform |-> Identity, ox |-> F(1),
     oy |-> F(2), font_size |-> font_size, line_height |-> F(0),
     max_width |-> max_width, align |-> align,
     rgba |-> <<F(1), F(1), F(1), F(1)>>, str |-> str]

Red == <<F(1), F(0), F(0), F(1)>>

White == <<F(1), F(1), F(1), F(1)>>

\* The records the display lists of the model are made of, by name.
\* "M0 0L9 0Z" is valid path data; "M0 0X" and "L1 1" are not.  RectHalf
\* has oy = -inf, whose encoding 00 00 80 FF holds the byte 255.
Rec(name) ==
    CASE name = "Begin2x1"  -> BeginFrameRec(F(2), F(1), F(1), White)
      [] name = "Begin1x2"  -> BeginFrameRec(Quarter(2), F(1), F(2), Red)
      [] name = "BeginNaN"  -> BeginFrameRec(NaN, F(2), F(1), Red)
      [] name = "BeginZero" -> BeginFrameRec(F(0), F(-3), F(1), White)
      [] name = "RectRed"   -> RectRec(F(1), F(10), F(20), F(100), F(50), Red)
      [] name = "RectHalf"  -> RectRec(Quarter(2), F(0), Inf(TRUE), F(1), F(1), White)
      [] name = "PathFill"  -> PathRec(0, 1, 0, <<77, 48, 32, 48, 76, 57, 32, 48, 90>>)
      [] name = "PathBoth"  -> PathRec(1, 1, 1, <<77, 48, 32, 48, 76, 57, 32, 48, 90>>)
      [] name = "PathNone"  -> PathRec(0, 0, 0, <<77, 48, 32, 48>>)
      [] name = "PathStroke" -> PathRec(1, 0, 1, <<77, 48, 32, 48, 76, 57, 32, 48, 90>>)
      [] name = "PathRule2" -> PathRec(2, 2, 0, <<77, 48, 32, 48, 76, 57, 32, 48, 90>>)
      [] name = "PathBad"   -> PathRec(0, 1, 1, <<77, 48, 32, 48, 88>>)
      [] name = "PathNoM"   -> PathRec(1, 1, 0, <<76, 49, 32, 49>>)
      [] name = "PathUtf8"  -> PathRec(0, 1, 0, <<77, 255>>)
      [] name = "TextWrap"  -> TextRec(F(4), F(6), 1, <<97, 32, 98, 10, 87, 87, 32, 97>>)
      [] name = "TextEmpty" -> TextRec(F(4), F(0), 0, <<>>)
      [] name = "TextUtf8"  -> TextRec(F(4), F(0), 0, <<97, 192, 128>>)
      [] name = "EndFrame"  -> [op |-> "EndFrame"]
      [] name = "Op0"       -> [op |-> "Raw", bytes |-> <<0>>]
      [] name = "Op5"       -> [op |-> "Raw", bytes |-> <<5>>]
      [] name = "Op7F"      -> [op |-> "Raw", bytes |-> <<127>>]
      [] name = "Op80"      -> [op |-> "Raw", bytes |-> <<128, 2, 255>>]
      [] OTHER              -> [op |-> "Raw", bytes |-> <<254>>]

RECURSIVE EncodeAll(_)
EncodeAll(stream) ==
    IF stream = <<>> THEN <<>> ELSE Encode(Rec(Head(stream))) \o EncodeAll(Tail(stream))

\* The bytes of the display list [stream, len]: the first len bytes of the
\* encoding of the records named by stream.
Bytes(input) == SubSeq(EncodeAll(input.stream), 1, input.len)

RECURSIVE EncodedLen(_)
EncodedLen(stream) ==
    IF stream = <<>> THEN 0 ELSE Len(Encode(Rec(Head(stream)))) + EncodedLen(Tail(stream))

\* The lengths at which the encoding of stream ends a record.
Boundaries(stream) == {EncodedLen(SubSeq(stream, 1, k)) : k \in 1..Len(stream)}

\* The lengths at which a display list is cut short: inside each record, the
\* byte after the opcode, one byte short of the end, and every CutStride-th
\* byte of the payload.
CutStride == 7

\* n lies in the record that starts at b, and is one of its cuts.
IsCut(stream, b, n) ==
    /\ n > b
    /\ \A c \in Boundaries(stream) : c <= b \/ c > n
    /\ n = b + 1 \/ n + 1 \in Boundaries(stream) \/ (n - b) % CutStride = 0

Cuts(stream) ==
    {n \in 1..EncodedLen(stream) :
        /\ n \notin Boundaries(stream)
        /\ \E b \in Boundaries(stream) \cup {0} : IsCut(stream, b, n)}

Whole(streams) == {[stream |-> s, len |-> EncodedLen(s)] : s \in streams}

AtBoundaries(streams) ==
    UNION {{[stream |-> s, len |-> n] : n \in Boundaries(s)} : s \in streams}

AtCuts(streams) ==
    UNION {{[stream |-> s, len |-> n] : n \in Cuts(s)} : s \in streams}

\* The display lists of the full system: the empty one and three frames,
\* two of them also ended after a record or inside one.
Inputs ==
    {[stream |-> <<>>, len |-> 0]}
    \cup Whole({ <<"Begin2x1", "RectRed", "EndFrame">>,
                 <<"Begin1x2", "PathBoth", "TextWrap">>,
                 <<"RectRed", "PathBad", "RectHalf", "EndFrame", "Op7F">>,
                 <<"BeginNaN", "BeginZero">> })
    \cup {[stream |-> <<"Begin2x1", "RectRed", "EndFrame">>,
           len |-> EncodedLen(<<"Begin2x1", "RectRed">>) - 1],
          [stream |-> <<"Begin1x2", "PathBoth", "TextWrap">>,
           len |-> EncodedLen(<<"Begin1x2">>)],
          [stream |-> <<"Begin1x2", "PathBoth", "TextWrap">>,
           len |-> EncodedLen(<<"Begin1x2">>) - 12]}

\* The display lists of the decoder on its own: every record alone, records
\* of each kind cut at each of their Cuts, and frames that mix
\* records, end markers and unknown opcodes, ended after each record.
RecordNames ==
    {"Begin2x1", "Begin1x2", "BeginNaN", "BeginZero", "RectRed", "RectHalf", "PathFill",
     "PathBoth", "PathNone", "PathStroke", "PathRule2", "PathBad", "PathNoM", "PathUtf8", "TextWrap",
     "TextEmpty", "TextUtf8"}

UnknownOpcodes == {"Op0", "Op5", "Op7F", "Op80", "OpFE"}

DecodeStreams ==
    { <<"Begin2x1", "RectRed", "EndFrame", "RectHalf">>,
      <<"Begin1x2", "RectHalf", "Begin2x1">>,
      <<"PathFill", "EndFrame", "Op7F">>,
      <<"PathBoth", "PathNone", "TextWrap">>,
      <<"RectRed", "PathBad", "RectHalf">>,
      <<"PathNoM", "TextWrap", "EndFrame", "PathUtf8">>,
      <<"EndFrame", "Op0", "EndFrame">>,
      <<"Begin1x2", "RectRed", "PathUtf8", "RectHalf">> }

DecodeInputs ==
    {[stream |-> <<>>, len |-> 0]}
    \cup AtBoundaries(DecodeStreams)
    \cup Whole({<<n>> : n \in RecordNames \cup UnknownOpcodes})
    \cup Whole({<<"RectRed", n>> : n \in UnknownOpcodes})
    \cup AtCuts({<<"Begin2x1">>, <<"PathBoth">>, <<"TextWrap">>,
                 <<"RectRed", "PathFill">>})

InputBytes == [i \in Inputs \cup DecodeInputs |-> Bytes(i)]

\* ---------------------------------------------------------------- system

MaxSize == 2

\* The widths and heights the host passes to resize, and the canvas sizes
\* at creation.
Sizes == {U32(n) : n \in 0..MaxSize}

\* caps.formats.first(), or Bgra8Unorm
SurfaceFormats == {"Bgra8Unorm"}

NoInput == [stream |-> <<>>, len |-> 0]

\* The part of the renderer that resize and render work on.
Before ==
    [config |-> config, surface |-> surface, offscreen |-> offscreen,
     present_bind_group |-> present_bind_group,
     present_pipeline |-> present_pipeline]

NoEnv == [first |-> "Ok", second |-> "Ok", raster |-> "Ok"]

\* The last call of the host, for the record: the operation, its arguments,
\* what the device was going to answer, the surface and the GPU objects the
\* call found, what it returned, what it did to the device, and where it
\* left the decoder.
Called(op, width, height, input, env, b, r) ==
    [op |-> op, width |-> width, height |-> height, input |-> input, env |-> env,
     before |-> b, ret |-> r.ret, events |-> r.self.events,
     offset |-> r.d.offset, read_end |-> r.d.read_end]

\* The call returns r: the renderer is as the call left it.
Returns(op, width, height, input, env, r) ==
    /\ config' = r.self.config
    /\ surface' = r.self.surface
    /\ scene' = r.self.scene
    /\ base_color' = r.self.base_color
    /\ offscreen' = r.self.offscreen
    /\ present_bind_group' = r.self.present_bind_group
    /\ present_pipeline' = r.self.present_pipeline
    /\ call' = Called(op, width, height, input, env, Before, r)

\* create_renderer (lines 102-166), for a canvas of the given size
Init ==
    \E cw \in Sizes, ch \in Sizes, format \in SurfaceFormats :
        /\ config = [width |-> U32Max1(cw), height |-> U32Max1(ch), format |-> format]
        /\ surface = [width |-> U32Max1(cw), height |-> U32Max1(ch)]
        /\ scene = <<>>
        /\ base_color = OpaqueBlack
        /\ offscreen = None
        /\ present_bind_group = None
        /\ present_pipeline = None
        /\ call = Called("create_renderer", cw, ch, NoInput, NoEnv, Before,
                         Return([events |-> <<[ev |-> "configure",
                                               width |-> U32Max1(cw),
                                               height |-> U32Max1(ch)]>>], "Ok"))

Resize(width, height) ==
    Returns("resize", width, height, NoInput, NoEnv,
            Return(resize(Self, width, height), "Ok"))

Apply(input) ==
    Returns("apply", U32Zero, U32Zero, input, NoEnv, apply(Self, InputBytes[input]))

Render(first, second, raster) ==
    Returns("render", U32Zero, U32Zero, NoInput,
            [first |-> first, second |-> second, raster |-> raster],
            render(Self, first, second, raster))

Next ==
    \/ \E width \in Sizes, height \in Sizes : Resize(width, height)
    \/ \E input \in Inputs : Apply(input)
    \/ \E first \in SurfaceResults, second \in SurfaceResults, raster \in {"Ok", "Err"} :
            /\ first \notin {"Lost", "Outdated"} => second = "Ok"
            /\ (first \notin {"Ok", "Lost", "Outdated"} \/ second # "Ok") => raster = "Ok"
            /\ Render(first, second, raster)

Spec == Init /\ [][Next]_vars

\* The decoder on its own: apply, for the display lists of DecodeInputs.
NextDecode == \E input \in DecodeInputs : Apply(input)

SpecDecode == Init /\ [][NextDecode]_vars

\* wrap_text_lines on its own: the texts of up to MaxText characters out of
\* two letters, the space, the tab and the line feed, laid out at one font
\* size for
\* widths that wrap and widths that do not.
MaxText == 5

WrapChars == {97, 87, 32, 9, 10}

WrapTexts == UNION {[1..n -> WrapChars] : n \in 0..MaxText}

WrapWidths == {F(5), F(8), Zero(FALSE), F(-1), Inf(FALSE), NaN}

WrapSize == F(4)

\* A call of wrap_text_lines about to be made (done is FALSE), or made.
Wrapping(text, max_width, size, done, lines) ==
    [op |-> "wrap_text_lines", text |-> text, max_width |-> max_width,
     size |-> size, fallback_width |-> effective_fallback_width(
                                         font_metrics(size).average_width, size),
     done |-> done, lines |-> lines]

\* A renderer as created for a canvas of 1 by 1, about to lay out a text.
InitWrap ==
    \E text \in WrapTexts, max_width \in WrapWidths, format \in SurfaceFormats :
        /\ config = [width |-> U32One, height |-> U32One, format |-> format]
        /\ surface = [width |-> U32One, height |-> U32One]
        /\ scene = <<>>
        /\ base_color = OpaqueBlack
        /\ offscreen = None
        /\ present_bind_group = None
        /\ present_pipeline = None
        /\ call = Wrapping(text, max_width, WrapSize, FALSE, <<>>)

\* wrap_text_lines (lines 799-862) returns the lines of the text.
WrapTextLines ==
    /\ ~call.done
    /\ call' = Wrapping(call.text, call.max_width, call.size, TRUE,
                        wrap_text_lines(call.text, call.max_width, call.size,
                                        call.fallback_width))
    /\ UNCHANGED <<config, surface, scene, base_color, offscreen,
                   present_bind_group, present_pipeline>>

NextWrap == WrapTextLines

SpecWrap == InitWrap /\ [][NextWrap]_vars

\* ------------------------------------------------------------ properties

\* What the producer of a display list means by it, taken from the records
\* themselves and not from their bytes.

\* The records apply gets through before it stops: those that are complete
\* within the first len bytes and come before the first EndFrame.
RECURSIVE FrameOf(_, _, _)
FrameOf(stream, len, acc) ==
    IF stream = <<>> \/ Head(stream) = "EndFrame" THEN acc
    ELSE IF len < EncodedLen(<<Head(stream)>>) THEN acc
    ELSE FrameOf(Tail(stream), len - EncodedLen(<<Head(stream)>>),
                 Append(acc, Head(stream)))

Blank == [scene |-> <<>>]

\* The draw commands of one record.
RecordCommands(rec) ==
    CASE rec.op = "Rect" ->
            scene_fill(Blank, "NonZero", rec.transform,
                       Color(rec.rgba[1], rec.rgba[2], rec.rgba[3], rec.rgba[4],
                             rec.opacity),
                       RoundedRect(rec.ox, rec.oy, rec.width, rec.height,
                                   rec.radius)).scene
      [] rec.op = "Path" ->
            emit_path(Blank, BezPath_from_svg(rec.str), rec.fill_rule, rec.transform,
                      IF rec.has_fill # 0
                      THEN Some(Color(rec.fill_rgba[1], rec.fill_rgba[2],
                                      rec.fill_rgba[3], rec.fill_rgba[4], rec.opacity))
                      ELSE None,
                      IF rec.has_stroke # 0
                      THEN Some([width |-> rec.stroke_width,
                                 color |-> Color(rec.stroke_rgba[1], rec.stroke_rgba[2],
                                                 rec.stroke_rgba[3], rec.stroke_rgba[4],
                                                 rec.opacity)])
                      ELSE None).scene
      [] rec.op = "Text" ->
            emit_text(Blank,
                      <<rec.opacity>> \o rec.transform
                      \o <<rec.ox, rec.oy, rec.font_size, rec.line_height,
                           rec.max_width>>,
                      TextAlign_from_u8(rec.align), rec.rgba,
                      from_utf8(rec.str, <<>>).chars).scene
      [] OTHER -> <<>>

\* The draw commands of a sequence of records, in their order.
RECURSIVE FrameCommands(_)
FrameCommands(names) ==
    IF names = <<>> THEN <<>>
    ELSE RecordCommands(Rec(Head(names))) \o FrameCommands(Tail(names))

\* Where a successful apply stops: right after the first EndFrame whose
\* opcode lies within the buffer, or at the end of the buffer.
RECURSIVE StopOffset(_, _, _)
StopOffset(stream, len, at) ==
    IF stream = <<>> \/ at >= len THEN len
    ELSE IF Head(stream) = "EndFrame" THEN at + 1
    ELSE StopOffset(Tail(stream), len, at + EncodedLen(<<Head(stream)>>))

\* C1: when apply returns successfully, whatever calls came before, the
\* scene is exactly the draw commands of the Rect, Path and Text records
\* that precede the first EndFrame or the end of the buffer, in their order,
\* with nothing left over from an earlier apply.
C1_SceneIsTheFrame ==
    (call.op = "apply" /\ call.ret = "Ok")
        => scene = FrameCommands(FrameOf(call.input.stream, call.input.len, <<>>))

\* An apply that succeeded on the frame of a rect, a path that does not
\* parse and a second rect, ended by EndFrame with one more byte behind it.
C1_Witness ==
    /\ call.op = "apply" /\ call.ret = "Ok"
    /\ call.input.stream = <<"RectRed", "PathBad", "RectHalf", "EndFrame", "Op7F">>
    /\ call.input.len = EncodedLen(call.input.stream)
    /\ Len(scene) = 2

\* The records apply decodes to the end: complete, with a string that is
\* valid UTF-8.
Decodable(name) ==
    /\ Rec(name).op \in {"BeginFrame", "Rect", "Path", "Text"}
    /\ Rec(name).op \in {"Path", "Text"} => from_utf8(Rec(name).str, <<>>).ok

\* apply gets to the k-th record of the stream: the records before it are
\* decodable and its first byte lies within the first len bytes.
Reaches(stream, len, k) ==
    /\ \A j \in 1..(k - 1) : Decodable(stream[j])
    /\ EncodedLen(SubSeq(stream, 1, k - 1)) < len

\* The outcome r of another apply is the one this step had.
SameOutcome(r) ==
    /\ r.ret = call'.ret
    /\ r.self.scene = scene'
    /\ r.self.base_color = base_color'
    /\ r.self.config = config'
    /\ r.self.surface = surface'

\* Bytes that could follow an EndFrame.
Trailing == {<<>>, <<0>>, <<2, 255>>, <<255, 1>>}

\* The buffer up to offset, followed by each of Trailing, has the outcome
\* this step had.
TrailingIgnored(s, bytes, offset) ==
    \A junk \in Trailing : SameOutcome(apply(s, SubSeq(bytes, 1, offset) \o junk))

\* C2: when apply succeeds, the decoder stopped right after the first
\* EndFrame read at an opcode position, or at the end of the buffer; no byte
\* after that EndFrame was read, and neither those bytes nor any others in
\* their place change the scene, the base color or the surface size, or
\* cause an error.
C2_StopsAtFirstEndFrame ==
    [][(call'.op = "apply" /\ call'.ret = "Ok") =>
          /\ call'.offset = StopOffset(call'.input.stream, call'.input.len, 0)
          /\ call'.read_end <= call'.offset
          /\ \/ call'.offset = call'.input.len
             \/ /\ InputBytes[call'.input][call'.offset] = 255
                /\ TrailingIgnored(Self, InputBytes[call'.input], call'.offset)]_vars

\* An apply that succeeded and stopped at an EndFrame with a whole Rect
\* record behind it.
C2_Witness ==
    /\ call.op = "apply" /\ call.ret = "Ok"
    /\ call.input.stream = <<"Begin2x1", "RectRed", "EndFrame", "RectHalf">>
    /\ call.input.len = EncodedLen(call.input.stream)
    /\ call.offset = EncodedLen(<<"Begin2x1", "RectRed", "EndFrame">>)
    /\ Len(scene) = 1

\* The bytes that are no opcode.
UnknownBytes == (0..255) \ {1, 2, 3, 4, 255}

\* The k-th record of the stream starts with a byte that is no opcode, at an
\* opcode position apply gets to.
UnknownAt(input, k) ==
    /\ Reaches(input.stream, input.len, k)
    /\ InputBytes[input][EncodedLen(SubSeq(input.stream, 1, k - 1)) + 1]
          \in UnknownBytes

\* The call failed on the byte after the first pos bytes, and so does apply
\* with any other byte that is no opcode in its place.
FailsAfter(bytes, pos) ==
    /\ call.ret = "Unknown opcode"
    /\ call.offset = pos + 1
    /\ \A b \in UnknownBytes :
          apply(Self, SubSeq(bytes, 1, pos) \o <<b>>).ret = "Unknown opcode"

\* C3: a byte at an opcode position (the first byte of the buffer, or the
\* byte after a completely decoded record) that is not 1, 2, 3, 4 or 255
\* makes apply return the decode error of an unknown opcode, whichever of
\* the other 251 values it has.
C3_UnknownOpcodeFails ==
    \A k \in 1..Len(call.input.stream) :
        (call.op = "apply" /\ UnknownAt(call.input, k))
            => FailsAfter(InputBytes[call.input],
                          EncodedLen(SubSeq(call.input.stream, 1, k - 1)))

\* An apply that failed on the byte 0x7F after a Rect record.
C3_Witness ==
    /\ call.op = "apply" /\ call.ret = "Unknown opcode"
    /\ call.input.stream = <<"RectRed", "Op7F">>
    /\ call.input.len = EncodedLen(call.input.stream)
    /\ Len(scene) = 1

\* The buffer ends inside the payload of a record apply gets to.
Truncated(input) ==
    \E k \in 1..Len(input.stream) :
        /\ Reaches(input.stream, input.len, k)
        /\ Rec(input.stream[k]).op \in {"BeginFrame", "Rect", "Path", "Text"}
        /\ input.len < EncodedLen(SubSeq(input.stream, 1, k))

\* C4: a buffer that ends before the payload of a BeginFrame, Rect, Path or
\* Text record is complete, its string included, makes apply return the
\* decode error of a short buffer; the offset of the decoder never exceeds
\* the length of the buffer and no byte outside the buffer is read.
C4_TruncatedPayloadFails ==
    call.op = "apply" =>
        /\ call.offset <= call.input.len
        /\ call.read_end <= call.input.len
        /\ call.ret # "panic"
        /\ Truncated(call.input) => call.ret = "Unexpected end of buffer"

\* An apply that failed on a Path record whose string is one byte short of
\* its declared length, the decoder left before the string.
C4_Witness ==
    /\ call.op = "apply" /\ call.ret = "Unexpected end of buffer"
    /\ call.input.stream = <<"PathBoth">>
    /\ call.input.len = EncodedLen(<<"PathBoth">>) - 1
    /\ call.offset = EncodedLen(<<"PathBoth">>) - Len(Rec("PathBoth").str)

\* The buffer is the first k records of its stream, all of them decodable:
\* it ends at a record boundary and holds no EndFrame.
EndsAtBoundary(input, k) ==
    /\ input.len = EncodedLen(SubSeq(input.stream, 1, k))
    /\ \A j \in 1..k : Decodable(input.stream[j])

\* C5: a buffer that ends at a record boundary without an EndFrame, the
\* empty buffer included, makes apply return success with the decoder at
\* the end of the buffer, and the scene holds the commands of all its
\* records.
C5_EndOfBufferEndsTheFrame ==
    \A k \in 0..Len(call.input.stream) :
        (call.op = "apply" /\ EndsAtBoundary(call.input, k)) =>
            /\ call.ret = "Ok"
            /\ call.offset = call.input.len
            /\ scene = FrameCommands(SubSeq(call.input.stream, 1, k))

\* An apply that succeeded on two paths and a text with no EndFrame.
C5_Witness ==
    /\ call.op = "apply" /\ call.ret = "Ok"
    /\ call.input.stream = <<"PathBoth", "PathNone", "TextWrap">>
    /\ call.input.len = EncodedLen(call.input.stream)
    /\ call.offset = call.input.len
    /\ Len(scene) = 3

\* A Path record whose string is valid UTF-8 and is not SVG path data.
UnparseablePath(name) ==
    /\ Rec(name).op = "Path"
    /\ from_utf8(Rec(name).str, <<>>).ok
    /\ ~BezPath_from_svg(from_utf8(Rec(name).str, <<>>).chars).ok

\* The stream without its k-th record.
Without(stream, k) == SubSeq(stream, 1, k - 1) \o SubSeq(stream, k + 1, Len(stream))

\* The outcome r of apply on the buffer without a record of n bytes is the
\* one this step had, the decoder n bytes further.
AsIfAbsent(r, n) == SameOutcome(r) /\ call'.offset = r.d.offset + n

\* C6: a complete Path record whose string is valid UTF-8 but does not parse
\* as SVG path data adds no fill and no stroke and does not make apply
\* fail; the decoder goes on right after the string, and the records that
\* follow are decoded and applied as if the record were absent.
C6_UnparseablePathIsSkipped ==
    [][\A k \in 1..Len(call'.input.stream) :
          ( /\ call'.op = "apply"
            /\ UnparseablePath(call'.input.stream[k])
            /\ Reaches(call'.input.stream, call'.input.len, k)
            /\ call'.input.len >= EncodedLen(SubSeq(call'.input.stream, 1, k)) )
          => AsIfAbsent(apply(Self,
                              SubSeq(EncodeAll(Without(call'.input.stream, k)), 1,
                                     call'.input.len
                                     - EncodedLen(<<call'.input.stream[k]>>))),
                        EncodedLen(<<call'.input.stream[k]>>))]_vars

\* An apply that succeeded on a rect, a path that does not parse and a
\* second rect: two fills, the decoder at the end.
C6_Witness ==
    /\ call.op = "apply" /\ call.ret = "Ok"
    /\ call.input.stream = <<"RectRed", "PathBad", "RectHalf">>
    /\ call.input.len = EncodedLen(call.input.stream)
    /\ call.offset = call.input.len
    /\ Len(scene) = 2 /\ scene[2].shape.kind = "rounded_rect"

\* The resize asks for a size with no zero in it that is not the size of
\* the surface configuration.
ResizeToNewSize ==
    /\ call.op = "resize"
    /\ call.width # U32Zero /\ call.height # U32Zero
    /\ call.width # call.before.config.width
       \/ call.height # call.before.config.height

\* C7: resize(w, h) with w >= 1 and h >= 1 other than the size of the
\* surface configuration sets the configuration to (w, h), configures the
\* surface with it, and leaves the offscreen target and the present bind
\* group absent, whatever they were.
C7_ResizeInvalidates ==
    ResizeToNewSize =>
        /\ config = [call.before.config EXCEPT !.width = call.width,
                                               !.height = call.height]
        /\ surface = [width |-> call.width, height |-> call.height]
        /\ call.events = <<[ev |-> "configure", width |-> call.width,
                            height |-> call.height]>>
        /\ offscreen = None
        /\ present_bind_group = None

\* A resize to a new size that found an offscreen target and a bind group.
C7_Witness ==
    /\ ResizeToNewSize
    /\ IsSome(call.before.offscreen) /\ IsSome(call.before.present_bind_group)
    /\ offscreen = None /\ present_bind_group = None
    /\ config.width = call.width /\ config.height = call.height

\* The resize asks for a size with a zero in it, or for the size of the
\* surface configuration.
ResizeToNoSize ==
    /\ call.op = "resize"
    /\ \/ call.width = U32Zero
       \/ call.height = U32Zero
       \/ /\ call.width = call.before.config.width
          /\ call.height = call.before.config.height

\* C8: resize(w, h) with w = 0 or h = 0, or to the size of the surface
\* configuration, changes nothing: the configuration, the offscreen target,
\* the present bind group and the pipeline stay and the surface is not
\* configured; and after any resize(w, h), a second resize(w, h) changes
\* nothing.
C8_ResizeNoOp ==
    /\ ResizeToNoSize =>
          /\ config = call.before.config
          /\ surface = call.before.surface
          /\ offscreen = call.before.offscreen
          /\ present_bind_group = call.before.present_bind_group
          /\ present_pipeline = call.before.present_pipeline
          /\ call.events = <<>>
    /\ call.op = "resize" => resize(Self, call.width, call.height) = Self

\* A resize to the current size that found an offscreen target and a bind
\* group, and left them.
C8_Witness ==
    /\ call.op = "resize"
    /\ call.width = call.before.config.width
    /\ call.height = call.before.config.height
    /\ IsSome(offscreen) /\ IsSome(present_bind_group)
    /\ call.events = <<>>

\* How many of the events are of the kind ev.
Count(events, ev) == Cardinality({i \in 1..Len(events) : events[i].ev = ev})

\* The renderer as the last call found it; render leaves the scene and the
\* base color alone.
Found ==
    [Self EXCEPT !.config = call.before.config,
                 !.surface = call.before.surface,
                 !.offscreen = call.before.offscreen,
                 !.present_bind_group = call.before.present_bind_group,
                 !.present_pipeline = call.before.present_pipeline]

\* The render went on after its third event as the render n whose first
\* acquisition succeeds goes on after its first, to the same end.
AsNormalRender(n) ==
    /\ SubSeq(call.events, 4, Len(call.events)) = Tail(n.self.events)
    /\ call.ret = n.ret
    /\ [Self EXCEPT !.surface = call.before.surface]
          = [n.self EXCEPT !.events = <<>>]

AcquireConfigureAcquire ==
    <<[ev |-> "acquire", result |-> call.env.first],
      [ev |-> "configure", width |-> call.before.config.width,
       height |-> call.before.config.height],
      [ev |-> "acquire", result |-> call.env.second]>>

\* C9: when the first acquisition of a render reports Lost or Outdated, the
\* render configures the surface once, with the configuration as it is, and
\* acquires once more; when that succeeds, the render goes on as one whose
\* first acquisition succeeds: with the rasterizer doing its part, the
\* frame is rasterized, composited and presented, and render returns
\* success.
C9_LostIsRetriedOnce ==
    (call.op = "render" /\ call.env.first \in {"Lost", "Outdated"}) =>
        /\ Len(call.events) >= 3
        /\ SubSeq(call.events, 1, 3) = AcquireConfigureAcquire
        /\ Count(call.events, "configure") = 1
        /\ Count(call.events, "acquire") = 2
        /\ config = call.before.config
        /\ surface = [width |-> config.width, height |-> config.height]
        /\ call.env.second = "Ok" =>
              /\ AsNormalRender(render(Found, "Ok", "Ok", call.env.raster))
              /\ call.env.raster = "Ok" =>
                    /\ call.ret = "Ok"
                    /\ Count(call.events, "rasterize") = 1
                    /\ Count(call.events, "submit") = 1
                    /\ call.events[Len(call.events)].ev = "present"

\* A render whose first acquisition reported Lost and whose retry succeeded,
\* ending with the frame presented.
C9_Witness ==
    /\ call.op = "render"
    /\ call.env = [first |-> "Lost", second |-> "Ok", raster |-> "Ok"]
    /\ call.ret = "Ok"
    /\ Count(call.events, "configure") = 1
    /\ call.events[Len(call.events)].ev = "present"

\* C10: a render acquires at most twice; when the retry after Lost or
\* Outdated fails, render returns the acquire error after the second
\* acquisition, with no third one, no second configure, and nothing
\* rasterized, submitted or presented.
C10_AtMostTwoAcquisitions ==
    call.op = "render" =>
        /\ Count(call.events, "acquire") <= 2
        /\ (call.env.first \in {"Lost", "Outdated"} /\ call.env.second # "Ok") =>
              /\ call.ret = "Failed to acquire surface"
              /\ call.events = AcquireConfigureAcquire
              /\ offscreen = call.before.offscreen
              /\ present_bind_group = call.before.present_bind_group
              /\ present_pipeline = call.before.present_pipeline

\* A render whose first acquisition reported Outdated and whose retry timed
\* out.
C10_Witness ==
    /\ call.op = "render"
    /\ call.env.first = "Outdated" /\ call.env.second = "Timeout"
    /\ call.ret = "Failed to acquire surface"
    /\ Len(call.events) = 3

\* The call just made reported Timeout at one of its acquisition attempts: at
\* the first, or at the retry made after a Lost or Outdated first attempt.
TimeoutReported ==
    \/ call'.env.first = "Timeout"
    \/ call'.env.first \in {"Lost", "Outdated"} /\ call'.env.second = "Timeout"

\* The call just made left the whole renderer as it found it.
Untouched ==
    UNCHANGED <<config, surface, scene, base_color, offscreen,
                present_bind_group, present_pipeline>>

\* C11: a Timeout reported by any acquisition attempt of render(), the retry
\* after Lost/Outdated included, makes render return success without
\* rasterizing, submitting or presenting, and with the scene, base color,
\* surface configuration, offscreen target, bind group and pipeline unchanged.
C11_TimeoutIsNeverAnError ==
    [][(call'.op = "render" /\ TimeoutReported) =>
            /\ call'.ret = "Ok"
            /\ Count(call'.events, "rasterize") = 0
            /\ Count(call'.events, "submit") = 0
            /\ Count(call'.events, "present") = 0
            /\ Untouched]_vars

\* C12: when the first acquisition of render() reports OutOfMemory, render
\* fails with the fatal error, and when it reports Other, with the transient
\* error.  Either way the acquisition is the call's only step (no reconfigure,
\* no retry, no rasterize, no present), the renderer is left as found, and
\* after the transient error a render whose acquisition and rasterization
\* succeed returns success and presents.
C12_AcquireErrors ==
    [][(call'.op = "render" /\ call'.env.first \in {"OutOfMemory", "Other"}) =>
            /\ call'.env.first = "OutOfMemory"
                  => call'.ret = "WebGPU surface out of memory"
            /\ call'.env.first = "Other" => call'.ret = "WebGPU surface error"
            /\ call'.events = <<[ev |-> "acquire", result |-> call'.env.first]>>
            /\ Untouched
            /\ call'.env.first = "Other" =>
                  /\ render(Self, "Ok", "Ok", "Ok").ret = "Ok"
                  /\ Count(render(Self, "Ok", "Ok", "Ok").self.events, "present") = 1]_vars

C12_Witness ==
    /\ call.op = "render"
    /\ call.env.first = "Other"
    /\ call.ret = "WebGPU surface error"
    /\ Len(scene) > 0
    /\ IsSome(offscreen)

\* The records apply decodes to the end before it stops: those that come
\* before the first EndFrame, are complete within the first len bytes and
\* have nothing undecodable before them.
RECURSIVE DecodedOf(_, _, _)
DecodedOf(stream, len, acc) ==
    IF stream = <<>> \/ ~Decodable(Head(stream)) THEN acc
    ELSE IF len < EncodedLen(<<Head(stream)>>) THEN acc
    ELSE DecodedOf(Tail(stream), len - EncodedLen(<<Head(stream)>>),
                   Append(acc, Head(stream)))

\* The records the last call decoded to the end.
CallDecoded == DecodedOf(call.input.stream, call.input.len, <<>>)

\* The BeginFrame records among names, in their order.
BeginFrames(names) == SelectSeq(names, LAMBDA n : Rec(n).op = "BeginFrame")

\* The base color a sequence of decoded records asks for.
BaseColorOf(names) ==
    IF BeginFrames(names) = <<>> THEN OpaqueBlack
    ELSE Rec(BeginFrames(names)[Len(BeginFrames(names))]).rgba

\* C13: after apply returns, with success or with an error, the base color
\* is the (r, g, b, a) of the last BeginFrame record decoded in that call,
\* wherever it stands in the stream, and opaque black when the call decoded
\* no BeginFrame; the base color of an earlier apply does not carry over.
C13_BaseColorIsTheLastBeginFrame ==
    call.op = "apply" => base_color = BaseColorOf(CallDecoded)

\* An apply of two BeginFrame records of different colors, the second one
\* behind a Rect, which ends with the color of the second.
C13_Witness ==
    /\ call.op = "apply" /\ call.ret = "Ok"
    /\ call.input.stream = <<"Begin1x2", "RectHalf", "Begin2x1">>
    /\ call.input.len = EncodedLen(call.input.stream)
    /\ base_color = White
    /\ base_color # Rec("Begin1x2").rgba

\* max(1, round(logical * dpr)) as far as a u32 goes, with 1 for a product
\* that is not a number.
ExtentOf(logical, dpr) ==
    IF F32Le(F32One, F32Round(F32Mul(logical, dpr)))
    THEN F32AsU32(F32Round(F32Mul(logical, dpr)))
    ELSE U32One

\* The last BeginFrame record the last call decoded.
LastBeginFrame == Rec(BeginFrames(CallDecoded)[Len(BeginFrames(CallDecoded))])

\* C14: the surface configuration left by a BeginFrame record has width
\* max(1, round(logical_width * dpr)) and height
\* max(1, round(logical_height * dpr)), for every value of the three fields,
\* products that are zero, negative or not a number included.  Stated of
\* the last BeginFrame an apply decoded, whose configuration is the one the
\* call leaves.
C14_BeginFrameSetsTheSize ==
    (call.op = "apply" /\ BeginFrames(CallDecoded) # <<>>) =>
        /\ config.width = ExtentOf(LastBeginFrame.logical_width, LastBeginFrame.dpr)
        /\ config.height = ExtentOf(LastBeginFrame.logical_height, LastBeginFrame.dpr)

\* Every size the call handed to the device, in configure or to the
\* rasterizer, is at least 1 in both dimensions.
SizesHandedOver ==
    \A i \in 1..Len(call.events) :
        call.events[i].ev \in {"configure", "rasterize"} =>
            /\ call.events[i].width # U32Zero
            /\ call.events[i].height # U32Zero

\* C15: in every state from create_renderer on, whatever the canvas size
\* was (0 included) and whatever resize, apply and render calls were made,
\* the surface configuration's width and height are at least 1, and so are
\* the sizes the surface is configured with and the rasterizer draws at.
C15_SizeAtLeastOne ==
    /\ config.width # U32Zero /\ config.height # U32Zero
    /\ surface.width # U32Zero /\ surface.height # U32Zero
    /\ SizesHandedOver

\* An apply whose BeginFrame asks for 0 by -3 pixels made a 2 pixel wide
\* surface 1 by 1.
C15_Witness ==
    /\ call.op = "apply" /\ call.ret = "Ok"
    /\ call.input.stream = <<"BeginNaN", "BeginZero">>
    /\ call.before.config.width = U32(2)
    /\ config.width = U32One /\ config.height = U32One

\* The swap-chain images the call acquired: the acquisitions that reported Ok.
Acquired ==
    {i \in 1..Len(call.events) :
        call.events[i].ev = "acquire" /\ call.events[i].result = "Ok"}

\* Where the call let go of an image, by presenting it or by dropping it.
Released ==
    {i \in 1..Len(call.events) : call.events[i].ev \in {"present", "drop_frame"}}

\* C16: when a call returns, no swap-chain image is held: on every return
\* path of render (success, Timeout, acquire error, rasterizer failure) each
\* acquired image has been presented or dropped, once and after it was
\* acquired, no image is presented more than once, and nothing is let go of
\* that was not acquired.
C16_NoImageHeld ==
    /\ Cardinality(Acquired) = Cardinality(Released)
    /\ Cardinality(Acquired) <= 1
    /\ \A i \in Acquired : \A j \in Released : i < j
    /\ Count(call.events, "present") <= 1
    /\ call.ret = "Ok" => Count(call.events, "drop_frame") = 0
    /\ call.ret # "Ok" => Count(call.events, "present") = 0

\* A render whose retry acquired an image and whose rasterizer failed: the
\* image was dropped and never presented.
C16_Witness ==
    /\ call.op = "render"
    /\ call.env.first = "Lost" /\ call.env.second = "Ok" /\ call.env.raster = "Err"
    /\ call.ret = "Render failed"
    /\ Cardinality(Acquired) = 1
    /\ Count(call.events, "drop_frame") = 1

\* The surface size after the BeginFrame records names, from the size wh:
\* each record's extent replaces it unless one of its dimensions is 0.
RECURSIVE SizeAfter(_, _)
SizeAfter(wh, names) ==
    IF names = <<>> THEN wh
    ELSE SizeAfter(
            IF U32Zero \in {frame_extent(Rec(Head(names)).logical_width, Rec(Head(names)).dpr),
                            frame_extent(Rec(Head(names)).logical_height, Rec(Head(names)).dpr)}
            THEN wh
            ELSE <<frame_extent(Rec(Head(names)).logical_width, Rec(Head(names)).dpr),
                   frame_extent(Rec(Head(names)).logical_height, Rec(Head(names)).dpr)>>,
            Tail(names))

\* The record the last call failed in, if it is a BeginFrame: the one behind
\* the records it decoded.
FailedBeginFrame ==
    IF /\ Len(CallDecoded) < Len(call.input.stream)
       /\ Rec(call.input.stream[Len(CallDecoded) + 1]).op = "BeginFrame"
    THEN <<call.input.stream[Len(CallDecoded) + 1]>>
    ELSE <<>>

\* C17: when apply returns a decode error, the scene holds exactly the draw
\* commands of the records decoded to the end before the failing record,
\* nothing of the failing record and nothing of the scene before the call;
\* the base color is the one the decoded BeginFrame records set, and the
\* surface has the size they set (a failing BeginFrame may have set its own).
C17_FailedApplyKeepsThePrefix ==
    (call.op = "apply" /\ call.ret # "Ok") =>
        /\ scene = FrameCommands(CallDecoded)
        /\ base_color = BaseColorOf(CallDecoded)
        /\ <<config.width, config.height>>
              \in {SizeAfter(<<call.before.config.width, call.before.config.height>>,
                             BeginFrames(CallDecoded)),
                   SizeAfter(<<call.before.config.width, call.before.config.height>>,
                             BeginFrames(CallDecoded) \o FailedBeginFrame)}

\* An apply that failed in its third record, a path that is not UTF-8,
\* after a BeginFrame that resized a 2 pixel wide surface and a Rect.
C17_Witness ==
    /\ call.op = "apply" /\ call.ret = "Invalid UTF-8 in path data"
    /\ call.input.stream = <<"Begin1x2", "RectRed", "PathUtf8", "RectHalf">>
    /\ call.before.config.width = U32(2)
    /\ config.width = U32One /\ config.height = U32(2)
    /\ base_color = Red
    /\ Len(scene) = 1

\* The surface and the GPU objects are exactly as the last call found them.
AsFound ==
    /\ config = call.before.config
    /\ surface = call.before.surface
    /\ offscreen = call.before.offscreen
    /\ present_bind_group = call.before.present_bind_group
    /\ present_pipeline = call.before.present_pipeline

\* The size the k-th record of the last call's buffer, a BeginFrame, asks for.
AskedSize(k) ==
    <<frame_extent(Rec(call.input.stream[k]).logical_width,
                   Rec(call.input.stream[k]).dpr),
      frame_extent(Rec(call.input.stream[k]).logical_height,
                   Rec(call.input.stream[k]).dpr)>>

\* The buffer of the last call holds no BeginFrame whose computed size is
\* non-zero and different from the size the call found.
NoResizingBeginFrame ==
    \A k \in 1..Len(call.input.stream) :
        (/\ Rec(call.input.stream[k]).op = "BeginFrame"
         /\ EncodedLen(SubSeq(call.input.stream, 1, k - 1)) < call.input.len)
        => \/ U32Zero \in {AskedSize(k)[1], AskedSize(k)[2]}
           \/ AskedSize(k) = <<call.before.config.width, call.before.config.height>>

\* C18: apply does nothing to the device but configure the surface: it
\* acquires and presents no image and creates no offscreen target, bind
\* group or pipeline.  When its buffer holds no BeginFrame whose computed
\* size is non-zero and different from the current size, it leaves the
\* surface configuration, offscreen target, bind group and pipeline as they
\* were, whether it succeeds or fails.
C18_ApplyLeavesTheDeviceAlone ==
    call.op = "apply" =>
        /\ \A i \in 1..Len(call.events) : call.events[i].ev = "configure"
        /\ offscreen \in {call.before.offscreen, None}
        /\ present_bind_group \in {call.before.present_bind_group, None}
        /\ present_pipeline = call.before.present_pipeline
        /\ NoResizingBeginFrame => (AsFound /\ call.events = <<>>)

\* An apply that failed behind a BeginFrame asking for the size the surface
\* had, and left the offscreen target and the bind group of an earlier
\* render in place.
C18_Witness ==
    /\ call.op = "apply" /\ call.ret # "Ok"
    /\ call.input.stream = <<"Begin2x1", "RectRed", "EndFrame">>
    /\ call.before.config.width = U32(2) /\ call.before.config.height = U32One
    /\ IsSome(offscreen) /\ IsSome(present_bind_group) /\ IsSome(present_pipeline)

\* The outcome r of an apply made now is the one the last call had and left.
SameAgain(r) ==
    /\ r.ret = call.ret
    /\ r.self.scene = scene
    /\ r.self.base_color = base_color
    /\ r.self.config = config
    /\ r.self.surface = surface

\* C19: from every state of the renderer and for every buffer, an apply of
\* the buffer followed by an apply of the same buffer ends as the first one
\* did: the same success or error, the same scene commands, the same base
\* color and the same surface size.
C19_ApplyTwiceIsApplyOnce ==
    call.op = "apply" => SameAgain(apply(Self, InputBytes[call.input]))

\* An apply that resized the surface twice on its way, from 2 by 1 to 1 by 2
\* and back, and left a scene and a color behind for the second apply.
C19_Witness ==
    /\ call.op = "apply" /\ call.ret = "Ok"
    /\ call.input.stream = <<"Begin1x2", "RectHalf", "Begin2x1">>
    /\ call.input.len = EncodedLen(call.input.stream)
    /\ call.before.config.width = U32(2) /\ call.before.config.height = U32One
    /\ Len(call.events) = 2
    /\ Len(scene) = 1

\* The last call is a call of wrap_text_lines that has returned, with a
\* width that wraps.
Wrapped ==
    call.op = "wrap_text_lines" /\ call.done /\ FinitePositive(call.max_width)

\* The raw lines of the text laid out.
RawLines == split(call.text, 10, <<>>, <<>>)

\* The words of a line.
WordsOf(line) == split_whitespace(line, <<>>, <<>>)

\* The advance of a word in the call's font.
Advance(word) == measure_text_width(word, call.size, call.fallback_width)

\* The visual lines emitted for one raw line: the lines of a text that
\* consists of it.
VisualLines(raw) ==
    wrap_text_lines(raw, call.max_width, call.size, call.fallback_width)

RECURSIVE AllVisualLines(_)
AllVisualLines(raws) ==
    IF raws = <<>> THEN <<>>
    ELSE VisualLines(Head(raws)) \o AllVisualLines(Tail(raws))

\* The words' advances, with one space advance between consecutive words,
\* added up from left to right.
RECURSIVE SumOfWords(_, _)
SumOfWords(words, sum) ==
    IF words = <<>> THEN sum
    ELSE SumOfWords(Tail(words), F32Add(F32Add(sum, Advance(<<32>>)),
                                        Advance(Head(words))))

WidthOfWords(words) ==
    IF words = <<>> THEN Zero(FALSE)
    ELSE SumOfWords(Tail(words), Advance(Head(words)))

\* No word of the raw line is wider than max_width, and no advance is
\* negative.
WordsFit(raw) ==
    \A k \in 1..Len(WordsOf(raw)) :
        /\ F32Le(Zero(FALSE), Advance(WordsOf(raw)[k]))
        /\ F32Le(Advance(WordsOf(raw)[k]), call.max_width)

WithinWidth(lines) ==
    \A k \in 1..Len(lines) :
        /\ F32Le(lines[k].width, call.max_width)
        /\ lines[k].width = WidthOfWords(WordsOf(lines[k].text))

\* C20: in wrap_text_lines with a finite positive max_width, the lines
\* returned are those emitted for the raw lines, one raw line after the
\* other, and for every raw line whose words each have an advance between 0
\* and max_width, every visual line emitted for it has a recorded width of at
\* most max_width, which is the sum of its words' advances plus one space
\* advance between consecutive words.
C20_WrappedLinesFit ==
    Wrapped =>
        /\ call.lines = AllVisualLines(RawLines)
        /\ \A i \in 1..Len(RawLines) :
              WordsFit(RawLines[i]) => WithinWidth(VisualLines(RawLines[i]))

\* "a a a" laid out for a width of 5: two words fill the first line to the
\* full width and the third goes to a second line.
C20_Witness ==
    /\ Wrapped
    /\ call.text = <<97, 32, 97, 32, 97>>
    /\ call.max_width = F(5)
    /\ Len(call.lines) = 2
    /\ call.lines[1] = LineLayout(<<97, 32, 97>>, F(5))
    /\ call.lines[2] = LineLayout(<<97>>, F(2))

\* The last call is a call of wrap_text_lines that has returned, with a
\* width that does not wrap: not finite, or not positive.
Unwrapped ==
    call.op = "wrap_text_lines" /\ call.done /\ ~FinitePositive(call.max_width)

\* Where the newline characters of the text are.
Newlines == {k \in 1..Len(call.text) : call.text[k] = 10}

\* The place of the i-th newline character; 0 stands before the text and
\* the place behind the text for the newline that is not there.
NewlineAt(i) ==
    IF i = 0 THEN 0
    ELSE IF i > Cardinality(Newlines) THEN Len(call.text) + 1
    ELSE CHOOSE p \in Newlines : Cardinality({q \in Newlines : q < p}) = i - 1

\* The i-th raw line: the characters between two newline characters.
RawLine(i) == SubSeq(call.text, NewlineAt(i - 1) + 1, NewlineAt(i) - 1)

\* The characters' advances, added up from left to right.
RECURSIVE SumOfAdvances(_, _)
SumOfAdvances(chars, sum) ==
    IF chars = <<>> THEN sum
    ELSE SumOfAdvances(Tail(chars),
                       F32Add(sum, char_advance(Head(chars), call.size,
                                                call.fallback_width)))

\* C21: in wrap_text_lines with a max_width that is not finite or not
\* positive, there is one visual line more than the text has newline
\* characters, each visual line's text is the raw line at its place,
\* unchanged (white space within it kept, an empty raw line an empty visual
\* line), and its width is the sum of its characters' advances.
C21_UnwrappedLinesAreTheRawLines ==
    Unwrapped =>
        /\ Len(call.lines) = Cardinality(Newlines) + 1
        /\ \A i \in 1..Len(call.lines) :
              /\ call.lines[i].text = RawLine(i)
              /\ call.lines[i].width = SumOfAdvances(RawLine(i), Zero(FALSE))

\* " a" and, behind an empty raw line, a tab and a space, laid out for the
\* width 0: three lines, the blanks kept.
C21_Witness ==
    /\ Unwrapped
    /\ call.max_width = Zero(FALSE)
    /\ call.text = <<32, 97, 10, 10, 9>>
    /\ Len(call.lines) = 3
    /\ call.lines[1].text = <<32, 97>>
    /\ call.lines[2] = LineLayout(<<>>, Zero(FALSE))
    /\ call.lines[3] = LineLayout(<<9>>, F(8))

\* The words joined by single spaces.
RECURSIVE Join(_)
Join(words) ==
    IF words = <<>> THEN <<>>
    ELSE IF Len(words) = 1 THEN Head(words)
    ELSE Head(words) \o <<32>> \o Join(Tail(words))

\* The words of the lines, line after line.
RECURSIVE WordsAcross(_)
WordsAcross(lines) ==
    IF lines = <<>> THEN <<>>
    ELSE WordsOf(Head(lines).text) \o WordsAcross(Tail(lines))

\* Every word appended to the line fitted: the line up to and including
\* each of its words but the first is no wider than max_width.
AppendedWordsFitted(words) ==
    \A j \in 2..Len(words) :
        F32Le(WidthOfWords(SubSeq(words, 1, j)), call.max_width)

\* The line that follows begins with a word that did not fit on this one.
BrokenWhereFull(words, next) ==
    ~F32Le(WidthOfWords(Append(words, Head(next))), call.max_width)

\* A word wider than max_width is the only word of its line.
WideWordAlone(words) ==
    (\E j \in 1..Len(words) : ~F32Le(Advance(words[j]), call.max_width))
        => Len(words) = 1

\* The visual lines of one raw line are its words, wrapped greedily.
Greedy(raw, lines) ==
    /\ Len(lines) >= 1
    /\ WordsAcross(lines) = WordsOf(raw)
    /\ \A k \in 1..Len(lines) :
          /\ lines[k].text = Join(WordsOf(lines[k].text))
          /\ WordsOf(raw) # <<>> => WordsOf(lines[k].text) # <<>>
          /\ AppendedWordsFitted(WordsOf(lines[k].text))
          /\ WideWordAlone(WordsOf(lines[k].text))
          /\ k < Len(lines) =>
                BrokenWhereFull(WordsOf(lines[k].text), WordsOf(lines[k + 1].text))

\* C22: in wrap_text_lines with a finite positive max_width, wrapping is
\* greedy and splits no word: a word joins the current visual line exactly
\* when the line's width plus a space advance plus the word's advance is at
\* most max_width, so a raw line is broken only where the next word would
\* not fit; a word wider than max_width stands whole and alone on a visual
\* line; and the words of each raw line appear across its visual lines in
\* their order, none lost and none twice.
C22_WrappingIsGreedy ==
    Wrapped =>
        /\ call.lines = AllVisualLines(RawLines)
        /\ \A i \in 1..Len(RawLines) :
              Greedy(RawLines[i], VisualLines(RawLines[i]))

\* "a aaa" laid out for a width of 5: the second word, 6 wide, does not fit
\* anywhere and stands alone on the second line.
C22_Witness ==
    /\ Wrapped
    /\ call.max_width = F(5)
    /\ call.text = <<97, 32, 97, 97, 97>>
    /\ Len(call.lines) = 2
    /\ call.lines[1] = LineLayout(<<97>>, F(2))
    /\ call.lines[2] = LineLayout(<<97, 97, 97>>, F(6))

\* The steps of the given kind the last call took, as places in its events.
Steps(ev) == {i \in 1..Len(call.events) : call.events[i].ev = ev}

\* The last call found no offscreen target, or one of another size than the
\* surface configuration.
TargetNeeded ==
    \/ ~IsSome(call.before.offscreen)
    \/ call.before.offscreen.val.width # call.before.config.width
    \/ call.before.offscreen.val.height # call.before.config.height

\* C23: whenever render rasterizes, whatever resize, apply and render calls
\* came before, the offscreen target exists, has the width and height of
\* the surface configuration and is what the rasterizer draws into at that
\* size.  The target is created by the first render and created anew only
\* when render finds none or one of another size than the configuration;
\* otherwise, as in consecutive renders with no change of size in between,
\* the target found is the one used.
C23_TargetMatchesTheSurface ==
    (call.op = "render" /\ Steps("rasterize") # {}) =>
        /\ IsSome(offscreen)
        /\ offscreen.val.width = config.width
        /\ offscreen.val.height = config.height
        /\ \A i \in Steps("rasterize") :
              /\ call.events[i].view = offscreen.val.view
              /\ call.events[i].width = offscreen.val.width
              /\ call.events[i].height = offscreen.val.height
        /\ Cardinality(Steps("create_texture")) = (IF TargetNeeded THEN 1 ELSE 0)
        /\ \A i \in Steps("create_texture") :
              /\ call.events[i].view = offscreen.val.view
              /\ call.events[i].width = config.width
              /\ call.events[i].height = config.height
        /\ ~TargetNeeded => offscreen = call.before.offscreen

\* A render that found the target of an earlier render of the 2 by 1
\* surface and drew into it.
C23_Witness ==
    /\ call.op = "render" /\ call.ret = "Ok"
    /\ config.width = U32(2) /\ config.height = U32One
    /\ IsSome(call.before.offscreen)
    /\ offscreen = call.before.offscreen
    /\ Steps("rasterize") # {}
    /\ Steps("create_texture") = {}

\* C24: the present bind group is never stale.  In every reachable state, a
\* present bind group that exists was built from the view of the offscreen
\* target, which exists; and in every render the composite pass submitted
\* samples the texture that render rasterized into, also after resizes,
\* resizes by BeginFrame and failed renders.
C24_BindGroupIsNeverStale ==
    /\ IsSome(present_bind_group) =>
          /\ IsSome(offscreen)
          /\ present_bind_group.val.view = offscreen.val.view
    /\ call.op = "render" =>
          \A i \in Steps("submit") :
              /\ Steps("rasterize") # {}
              /\ \A j \in Steps("rasterize") :
                    j < i /\ call.events[j].view = call.events[i].view
              /\ \A j \in Steps("create_bind_group") :
                    j < i /\ call.events[j].view = call.events[i].view

\* A render after a resize that came after an earlier render: it found the
\* pipeline but neither target nor bind group, made both and composited
\* what it had rasterized.
C24_Witness ==
    /\ call.op = "render" /\ call.ret = "Ok"
    /\ IsSome(call.before.present_pipeline)
    /\ ~IsSome(call.before.offscreen) /\ ~IsSome(call.before.present_bind_group)
    /\ IsSome(present_bind_group) /\ IsSome(offscreen)
    /\ present_bind_group.val.view = offscreen.val.view
    /\ Steps("create_bind_group") # {} /\ Steps("submit") # {}

\* The place of a step in the order of render.
Rank(ev) ==
    CASE ev \in {"acquire", "configure"} -> 1
      [] ev = "create_texture"    -> 2
      [] ev = "create_bind_group" -> 3
      [] ev = "create_pipeline"   -> 4
      [] ev = "rasterize"         -> 5
      [] ev = "submit"            -> 6
      [] OTHER                    -> 7

\* The last call rasterized once, with the given result.
RasterizedOnce(result) ==
    /\ Cardinality(Steps("rasterize")) = 1
    /\ \A i \in Steps("rasterize") : call.events[i].result = result

\* C25: within every render the steps come in the order acquire image,
\* ensure offscreen target, bind group and pipeline, rasterize the scene
\* into the target, submit the composite pass, present.  The composite pass
\* is submitted and the image presented only after a rasterize that
\* succeeded; a rasterizer failure makes render return the render error with
\* nothing submitted and nothing presented.  Every render presents at most
\* once and no other call presents, so that presents follow the order of
\* the calls.
C25_StepsInOrder ==
    /\ call.op # "render" => Steps("submit") \cup Steps("present") = {}
    /\ call.op = "render" =>
          /\ \A i, j \in 1..Len(call.events) :
                i < j => Rank(call.events[i].ev) <= Rank(call.events[j].ev)
          /\ Cardinality(Steps("submit")) <= 1
          /\ Cardinality(Steps("present")) <= 1
          /\ Cardinality(Steps("submit")) = Cardinality(Steps("present"))
          /\ Steps("present") # {} => (RasterizedOnce("Ok") /\ call.ret = "Ok")
          /\ (\E i \in Steps("rasterize") : call.events[i].result # "Ok") =>
                /\ call.ret = "Render failed"
                /\ Steps("submit") \cup Steps("present") = {}
          /\ RasterizedOnce("Ok") => Steps("present") # {}

\* A first render: image acquired, target, bind group and pipeline made,
\* scene rasterized, composite pass submitted, image presented.
C25_Witness ==
    /\ call.op = "render" /\ call.ret = "Ok"
    /\ Len(call.events) = 7
    /\ call.events[1].ev = "acquire"
    /\ call.events[2].ev = "create_texture"
    /\ call.events[3].ev = "create_bind_group"
    /\ call.events[4].ev = "create_pipeline"
    /\ call.events[5].ev = "rasterize"
    /\ call.events[6].ev = "submit"
    /\ call.events[7].ev = "present"

\* The last call is an apply that got through its buffer's first record, a
\* Path record with a path string that parses.
PathApplied ==
    /\ call.op = "apply"
    /\ call.input.stream # <<>>
    /\ Rec(call.input.stream[1]).op = "Path"
    /\ call.input.len >= EncodedLen(<<call.input.stream[1]>>)
    /\ from_utf8(Rec(call.input.stream[1]).str, <<>>).ok
    /\ BezPath_from_svg(from_utf8(Rec(call.input.stream[1]).str, <<>>).chars).ok

\* The shape of a Path record's string.
ShapeOf(rec) == BezPath(BezPath_from_svg(from_utf8(rec.str, <<>>).chars).els)

\* The fill a Path record asks for, if it asks for one.
FillOf(rec) ==
    IF rec.has_fill = 0 THEN <<>>
    ELSE <<[cmd |-> "fill",
            style |-> IF rec.fill_rule = 1 THEN "EvenOdd" ELSE "NonZero",
            transform |-> rec.transform,
            brush |-> Color(rec.fill_rgba[1], rec.fill_rgba[2], rec.fill_rgba[3],
                            rec.fill_rgba[4], rec.opacity),
            shape |-> ShapeOf(rec)]>>

\* The stroke a Path record asks for, if it asks for one.
StrokeOf(rec) ==
    IF rec.has_stroke = 0 THEN <<>>
    ELSE <<[cmd |-> "stroke", width |-> rec.stroke_width,
            transform |-> rec.transform,
            brush |-> Color(rec.stroke_rgba[1], rec.stroke_rgba[2],
                            rec.stroke_rgba[3], rec.stroke_rgba[4], rec.opacity),
            shape |-> ShapeOf(rec)]>>

\* The bytes of a Path record: opcode, opacity, transform, fill_rule,
\* has_fill, has_stroke and path_len, the string, and the fields that are
\* there for a flag that is not 0.
PathBytes(rec) ==
    36 + Len(rec.str) + (IF rec.has_fill = 0 THEN 0 ELSE 16)
       + (IF rec.has_stroke = 0 THEN 0 ELSE 20)

\* C26: a Path record with a path string that parses emits a fill exactly
\* when has_fill is not 0 and a stroke exactly when has_stroke is not 0, the
\* fill before the stroke, even-odd exactly when fill_rule is 1 and non-zero
\* otherwise, and nothing when both flags are 0.  The 16 bytes of the fill
\* color and the 20 bytes of stroke width and color are consumed only for a
\* flag that is not 0: the decoder is behind the record after as many bytes
\* as the flags say.
C26_PathFlagsDecide ==
    PathApplied =>
        /\ Len(scene) >= Len(FillOf(Rec(call.input.stream[1])))
                         + Len(StrokeOf(Rec(call.input.stream[1])))
        /\ SubSeq(scene, 1, Len(FillOf(Rec(call.input.stream[1])))
                            + Len(StrokeOf(Rec(call.input.stream[1]))))
              = FillOf(Rec(call.input.stream[1])) \o StrokeOf(Rec(call.input.stream[1]))
        /\ call.offset >= PathBytes(Rec(call.input.stream[1]))
        /\ Len(call.input.stream) = 1 =>
              /\ call.ret = "Ok"
              /\ scene = FillOf(Rec(call.input.stream[1]))
                         \o StrokeOf(Rec(call.input.stream[1]))
              /\ call.offset = PathBytes(Rec(call.input.stream[1]))
              /\ call.input.len = PathBytes(Rec(call.input.stream[1]))

\* A Path record with has_fill 0 and has_stroke 1 and nothing behind it: a
\* stroke and no fill, and a record of 36 + 20 + 9 bytes.
C26_Witness ==
    /\ PathApplied
    /\ call.input.stream = <<"PathStroke">>
    /\ Len(scene) = 1
    /\ scene[1].cmd = "stroke"
    /\ call.offset = 65

\* Where the record behind the decoded ones begins in the buffer.
FailedAt == EncodedLen(CallDecoded)

\* The last call is an apply whose buffer ends within a BeginFrame record,
\* behind its three size fields and before the end of its four color fields.
BeginFrameCut ==
    /\ call.op = "apply"
    /\ FailedBeginFrame # <<>>
    /\ call.input.len - FailedAt >= 13
    /\ call.input.len - FailedAt < 29

\* The size of the surface when apply came to the record it failed in.
SizeThen ==
    SizeAfter(<<call.before.config.width, call.before.config.height>>,
              BeginFrames(CallDecoded))

\* The size the surface has with the record apply failed in.
SizeWith ==
    SizeAfter(<<call.before.config.width, call.before.config.height>>,
              BeginFrames(CallDecoded) \o FailedBeginFrame)

\* C27: a BeginFrame record is not applied atomically.  When the buffer ends
\* behind the record's three size fields and before its four color fields
\* are complete, apply returns a decode error, yet the surface has been
\* resized to the record's size, and if that size is not zero and not the
\* size the surface had, the surface was configured and offscreen target and
\* bind group are gone; the base color is not the record's: it stays at the
\* opaque black set at the start of the call (or at an earlier BeginFrame's).
C27_BeginFrameIsNotAtomic ==
    BeginFrameCut =>
        /\ call.ret = "Unexpected end of buffer"
        /\ <<config.width, config.height>> = SizeWith
        /\ <<surface.width, surface.height>> = SizeWith
        /\ base_color = BaseColorOf(CallDecoded)
        /\ BeginFrames(CallDecoded) = <<>> => base_color = OpaqueBlack
        /\ SizeWith # SizeThen =>
              /\ offscreen = None
              /\ present_bind_group = None
              /\ call.events # <<>>
              /\ call.events[Len(call.events)]
                    = [ev |-> "configure", width |-> SizeWith[1], height |-> SizeWith[2]]

\* An apply whose buffer ends in the color of a BeginFrame asking for 1 by
\* 2 pixels: it failed, and the surface, 2 by 1 before, has the new size and
\* has lost the target and the bind group of an earlier render.
C27_Witness ==
    /\ BeginFrameCut
    /\ call.input.stream[1] = "Begin1x2"
    /\ call.before.config.width = U32(2) /\ call.before.config.height = U32One
    /\ IsSome(call.before.offscreen) /\ IsSome(call.before.present_bind_group)
    /\ config.width = U32One /\ config.height = U32(2)
    /\ offscreen = None /\ present_bind_group = None
    /\ base_color = OpaqueBlack
    /\ call.ret # "Ok"

=============================================================================
